---- MODULE Spec2Model ----
(***************************************************************************)
(* Model of the DarwinSQL migration harness (tests/test_migrations.py):    *)
(* _apply_migration rewrites one migration file's text and executes its    *)
(* statements on a cursor; the migration tests drive it over the sorted    *)
(* migration files and commit.                                              *)
(*                                                                         *)
(* A text is a sequence of one-character strings, so that str.replace,     *)
(* str.split, str.index, in, strip, rstrip, lower, upper and startswith    *)
(* are modelled by what they do on characters.                             *)
(***************************************************************************)
EXTENDS Integers, Sequences, FiniteSets, TLC

VARIABLES
    test,             \* the test function that drives the harness
    table_prefix,     \* migration_test_prefix fixture value
    migration_files,  \* sorted(glob.glob(...)): the file names, in order
    fi,               \* index in migration_files of the file being applied
    pc,               \* position of the test: "read", "loop", "verify", "raised"
    sql_content,      \* text of the file being applied (_apply_migration's argument)
    sql_filtered,     \* sql after the suffixed-table lines are dropped (line 55)
    sql_prefixed,     \* sql after the eight replace calls (line 66)
    sql,              \* sql after the comment stripping (line 80)
    statements,       \* sql.split(';') (line 83)
    si,               \* index in statements of the next loop iteration
    log,              \* what the connection has been asked to do, in order
    raised,           \* the RuntimeError message that left _apply_migration, or <<>>
    catalog,          \* the names of the tables of the database darwin2
    callers,          \* the test invocations that apply migrations side by side
    committed,        \* the writes the shared connection has committed
    pending,          \* the writes of the connection's open transaction
    unit,             \* the test or fixture that is using the shared connection
    finished,         \* the tests that have run in the session, with their outcomes
    errors,           \* the errors the database has raised in the session
    on_delete,        \* the ON DELETE action of each foreign key of the schema
    rows,             \* the rows of the four tables
    last,             \* the last statement run on the four tables and its outcome
    run,              \* the run of a script: its inputs, position, connection and output
    server            \* the database server the script talks to

\* the variables of one run of a migration test through _apply_migration
harnessVars == <<test, table_prefix, migration_files, fi, pc, sql_content, sql_filtered,
                 sql_prefixed, sql, statements, si, log, raised>>
\* the variables of the test invocations that share the database
migrateVars == <<catalog, callers>>
\* the variables of the pytest session on the shared connection
sessionVars == <<committed, pending, unit, finished, errors>>
\* the variables of the four tables and their foreign keys
rowVars == <<on_delete, rows, last>>
\* the variables of a run of a script of scripts/
scriptVars == <<run, server>>

vars == <<harnessVars, migrateVars, sessionVars, rowVars, scriptVars>>

\* the state of each part while another part is the one being run
HarnessIdle ==
    /\ test = "" /\ table_prefix = <<>> /\ migration_files = <<>> /\ fi = 1
    /\ pc = "" /\ sql_content = <<>> /\ sql_filtered = <<>> /\ sql_prefixed = <<>>
    /\ sql = <<>> /\ statements = <<>> /\ si = 1 /\ log = <<>> /\ raised = <<>>
MigrateIdle == catalog = {} /\ callers = <<>>
SessionIdle ==
    /\ committed = {} /\ pending = {} /\ unit = <<>> /\ finished = <<>> /\ errors = {}
RowsIdle == on_delete = <<>> /\ rows = <<>> /\ last = <<>>
ScriptIdle == run = <<>> /\ server = <<>>

(***************************************************************************)
(* Python str operations on sequences of characters                        *)
(***************************************************************************)

Min(S) == CHOOSE x \in S : \A y \in S : x <= y

\* s[i:].startswith(pat), i counted from 1
StartsWithAt(s, i, pat) ==
    /\ i + Len(pat) - 1 <= Len(s)
    /\ \A k \in 1..Len(pat) : s[i + k - 1] = pat[k]

\* s.startswith(pat)
StartsWith(s, pat) == StartsWithAt(s, 1, pat)

\* s.index(pat) counted from 1; 0 when pat does not occur (s.find(pat) + 1)
Find(s, pat) ==
    LET hits == {i \in 1..(Len(s) - Len(pat) + 1) : StartsWithAt(s, i, pat)}
    IN  IF hits = {} THEN 0 ELSE Min(hits)

\* pat in s
Contains(s, pat) == Find(s, pat) # 0

\* s.replace(old, new): leftmost non-overlapping occurrences, one pass
RECURSIVE Replace(_, _, _)
Replace(s, old, new) ==
    LET i == Find(s, old)
    IN  IF i = 0 THEN s
        ELSE SubSeq(s, 1, i - 1) \o new
             \o Replace(SubSeq(s, i + Len(old), Len(s)), old, new)

\* s.split(sep) for a one-character separator; the empty text gives one empty part
RECURSIVE Split(_, _)
Split(s, sep) ==
    LET i == Find(s, <<sep>>)
    IN  IF i = 0 THEN <<s>>
        ELSE <<SubSeq(s, 1, i - 1)>> \o Split(SubSeq(s, i + 1, Len(s)), sep)

\* sep.join(parts)
RECURSIVE Join(_, _)
Join(parts, sep) ==
    IF parts = <<>> THEN <<>>
    ELSE IF Len(parts) = 1 THEN parts[1]
    ELSE parts[1] \o <<sep>> \o Join(Tail(parts), sep)

Whitespace == {" ", "\n", "\t", "\r"}

\* s.rstrip()
RECURSIVE RStrip(_)
RStrip(s) ==
    IF s # <<>> /\ s[Len(s)] \in Whitespace THEN RStrip(SubSeq(s, 1, Len(s) - 1)) ELSE s

\* s.lstrip()
RECURSIVE LStrip(_)
LStrip(s) ==
    IF s # <<>> /\ s[1] \in Whitespace THEN LStrip(Tail(s)) ELSE s

\* s.strip()
Strip(s) == LStrip(RStrip(s))

LowerCase == <<"a","b","c","d","e","f","g","h","i","j","k","l","m",
               "n","o","p","q","r","s","t","u","v","w","x","y","z">>
UpperCase == <<"A","B","C","D","E","F","G","H","I","J","K","L","M",
               "N","O","P","Q","R","S","T","U","V","W","X","Y","Z">>

LowerChar(c) ==
    IF \E k \in 1..Len(UpperCase) : UpperCase[k] = c
    THEN LowerCase[CHOOSE k \in 1..Len(UpperCase) : UpperCase[k] = c] ELSE c

UpperChar(c) ==
    IF \E k \in 1..Len(LowerCase) : LowerCase[k] = c
    THEN UpperCase[CHOOSE k \in 1..Len(LowerCase) : LowerCase[k] = c] ELSE c

\* s.lower(), s.upper()
Lower(s) == [k \in 1..Len(s) |-> LowerChar(s[k])]
Upper(s) == [k \in 1..Len(s) |-> UpperChar(s[k])]

(***************************************************************************)
(* The literals of _apply_migration                                        *)
(***************************************************************************)

profiles == <<"p","r","o","f","i","l","e","s">>
domains  == <<"d","o","m","a","i","n","s">>
areas    == <<"a","r","e","a","s">>
tasks    == <<"t","a","s","k","s">>

\* the four canonical table names, in the order lines 58-66 replace them
TableNames == <<profiles, domains, areas, tasks>>

\* the list of suffixed names of line 52
SuffixedNames == {profiles \o <<"2">>, domains \o <<"2">>, areas \o <<"2">>, tasks \o <<"2">>}

\* the grave accent (U+0060) that delimits an identifier in MySQL; the parser
\* cannot read that character inside a string, so it is spelled out
GRAVE == "GRAVE"

Backtick(name) == <<GRAVE>> \o name \o <<GRAVE>>

\* the f-string of lines 58-66: table_prefix, an underscore, the name
Prefixed(prefix, name) == prefix \o <<"_">> \o name

DashDash == <<"-","-">>
Hash == <<"#">>
Quote == <<"'">>

CREATE_DATABASE == <<"C","R","E","A","T","E"," ","D","A","T","A","B","A","S","E">>
USE_ == <<"U","S","E"," ">>

(***************************************************************************)
(* _apply_migration, lines 47-55: drop the lines naming a suffixed table   *)
(***************************************************************************)

\* a variant that forgets .lower(): the names are looked for as written
MentionsSuffixedAsWritten(line) ==
    \E t \in SuffixedNames : Contains(Strip(line), t)

\* the test of line 52 on one line of the file
MentionsSuffixed(line) ==
    LET stripped == Lower(Strip(line))
    IN  \E t \in SuffixedNames : Contains(stripped, t)

\* lines 49-54: the lines that are appended to filtered_lines, in order
filtered_lines(content) ==
    SelectSeq(Split(content, "\n"), LAMBDA line : ~MentionsSuffixed(line))

\* line 55
StripSuffixedLines(content) == Join(filtered_lines(content), "\n")

(***************************************************************************)
(* lines 57-66: the eight replace calls, in the order of the source        *)
(***************************************************************************)

\* lines 58-61: the backtick-delimited names
ReplaceQuoted(s, prefix) ==
    LET s1 == Replace(s,  Backtick(profiles), Backtick(Prefixed(prefix, profiles)))
        s2 == Replace(s1, Backtick(domains),  Backtick(Prefixed(prefix, domains)))
        s3 == Replace(s2, Backtick(areas),    Backtick(Prefixed(prefix, areas)))
    IN  Replace(s3, Backtick(tasks), Backtick(Prefixed(prefix, tasks)))

\* lines 63-66: the bare names
ReplaceUnquoted(s, prefix) ==
    LET s1 == Replace(s,  profiles, Prefixed(prefix, profiles))
        s2 == Replace(s1, domains,  Prefixed(prefix, domains))
        s3 == Replace(s2, areas,    Prefixed(prefix, areas))
    IN  Replace(s3, tasks, Prefixed(prefix, tasks))

\* a variant that leaves the bare names as they are
ReplaceDelimitedNamesOnly(s, prefix) == ReplaceQuoted(s, prefix)

\* lines 58-66
ReplaceTableNames(s, prefix) == ReplaceUnquoted(ReplaceQuoted(s, prefix), prefix)

(***************************************************************************)
(* lines 68-80: comment stripping, line by line                            *)
(***************************************************************************)

\* a variant that guards the dash comment by a quote, as line 75 guards the hash
StripDashCommentOutsideQuotes(line) ==
    IF Contains(line, DashDash)
       /\ ~Contains(SubSeq(line, 1, Find(line, DashDash) - 1), Quote)
    THEN SubSeq(line, 1, Find(line, DashDash) - 1)
    ELSE line

\* lines 72-73
StripDashComment(line) ==
    IF Contains(line, DashDash) THEN SubSeq(line, 1, Find(line, DashDash) - 1) ELSE line

\* lines 75-76
StripHashComment(line) ==
    IF Contains(line, Hash) /\ ~Contains(SubSeq(line, 1, Find(line, Hash) - 1), Quote)
    THEN SubSeq(line, 1, Find(line, Hash) - 1)
    ELSE line

\* lines 71-77: what one line becomes
StripLine(line) == RStrip(StripHashComment(StripDashComment(line)))

\* lines 69-80: the non-empty stripped lines, joined again
StripComments(s) ==
    LET ls == Split(s, "\n")
        stripped == [k \in 1..Len(ls) |-> StripLine(ls[k])]
    IN  Join(SelectSeq(stripped, LAMBDA line : line # <<>>), "\n")

(***************************************************************************)
(* lines 82-95: the statement loop                                         *)
(***************************************************************************)

\* line 89: upper_stmt.startswith(('CREATE DATABASE', 'USE '))
IsControl(stmt) ==
    LET upper_stmt == Upper(stmt)
    IN  StartsWith(upper_stmt, CREATE_DATABASE) \/ StartsWith(upper_stmt, USE_)

\* a variant that forgets .strip(): the fragment is tested as it was split
ExecutesUntrimmed(statement) == statement # <<>> /\ ~IsControl(statement)

\* lines 84-90: the iteration executes its fragment (neither continue is taken)
Executes(statement) == Strip(statement) # <<>> /\ ~IsControl(Strip(statement))

\* a variant whose message leaves the statement out
ErrorMessageWithoutStatement(stmt, e) ==
    <<"Migration statement failed:\n">> \o <<"\nError: ">> \o e

\* line 95: the message of the RuntimeError; the two literals are kept whole
ErrorMessage(stmt, e) ==
    <<"Migration statement failed:\n">> \o stmt \o <<"\nError: ">> \o e

(***************************************************************************)
(* Inputs: the prefix, the migration files and their texts                 *)
(***************************************************************************)

\* conftest.py migration_test_prefix: "mig_" and six hexadecimal digits
Prefixes == { <<"m","i","g","_","a","b","c","1","2","3">>,
              <<"m","i","g","_","d","e","a","d","0","0">> }

\* the pieces a migration text is put together from
Tokens == { tasks, <<GRAVE>>, <<"2">>, <<"T","A","S","K","S">>,
            <<"\n">>, <<";">>, <<" ">>, <<"x">>,
            DashDash, Hash, Quote, <<"\"">>,
            <<"U","s","e">>, CREATE_DATABASE }

\* the largest number of pieces in a text
MaxTokens == 2

RECURSIVE Concat(_)
Concat(pieces) ==
    IF pieces = <<>> THEN <<>> ELSE Head(pieces) \o Concat(Tail(pieces))

TokenTexts == { Concat(ts) : ts \in UNION { [1..n -> Tokens] : n \in 0..MaxTokens } }

\* what may follow a table reference in the texts that hold every reference
Separators == { <<" ">>, <<";">>, <<"\n">> }

\* texts holding each of the four names delimited and bare
AllFormsTexts ==
    { Concat(<< Backtick(profiles), <<" ">>, profiles, sep[1],
                Backtick(domains),  <<" ">>, domains,  sep[2],
                Backtick(areas),    <<" ">>, areas,    sep[3],
                Backtick(tasks),    <<" ">>, tasks,    sep[4] >>)
      : sep \in [1..4 -> Separators] }

\* whole lines of a migration file
Lines == { Concat(<< <<" ">>, <<"T","a","s","k","s","2">>, <<" ">>, <<"x">>, <<";">> >>),
           Concat(<< <<"x">>, <<";">>, <<" ">>, DashDash, <<" ">>, areas, <<"2">> >>),
           Concat(<< <<"x">>, <<";">>, <<" ">>, <<"y">>, <<";">> >>),
           Concat(<< tasks, <<";">> >>),
           Concat(<< <<"y">>, <<" ">>, Quote, <<"a">>, DashDash, <<"b">>, Quote, <<";">> >>),
           Concat(<< <<"y">>, <<";">>, <<" ">>, DashDash, <<" ">>, <<"c">>, <<";">> >>),
           Concat(<< <<"y">>, <<" ">>, Hash, <<"c">> >>),
           Concat(<< Quote, <<"a">>, Quote, <<" ">>, Hash, <<"c">>, <<";">> >>),
           Concat(<< <<"u","s","e"," ","d">>, <<";">> >>),
           <<"U","s","e">>,
           <<"z">>,
           <<>> }

\* the largest number of lines in a text made of whole lines
MaxLines == 2

LineTexts == { Join(ls, "\n") : ls \in UNION { [1..n -> Lines] : n \in 1..MaxLines } }

Texts == TokenTexts \cup AllFormsTexts \cup LineTexts

\* the texts of the files of a several-file run
SequenceTexts == { <<"x">>, <<"x",";","y">>, <<"U","S","E"," ","d",";","x">>, <<>> }

\* str(e) of the exception cur.execute raises: the server's error text
DbErrors == { <<"1","0","6","4">>, <<"1","1","4","6">> }

\* *.sql in the migrations directory: numbered file names
SqlFile(number) == number \o <<".","s","q","l">>
FileNames == { SqlFile(<<"0","0","1">>), SqlFile(<<"0","0","2">>),
               SqlFile(<<"0","1","0">>), SqlFile(<<"0","0","1","0">>) }

\* the characters of a file name, in code point order
CodeOrder == <<".","0","1","2","3","4","5","6","7","8","9","l","q","s">>
Ord(c) == CHOOSE k \in 1..Len(CodeOrder) : CodeOrder[k] = c

\* Python's order on str: the first differing character decides, a proper prefix is less
StrLess(a, b) ==
    \/ Len(a) < Len(b) /\ \A k \in 1..Len(a) : a[k] = b[k]
    \/ \E k \in 1..Len(a) :
          /\ k <= Len(b)
          /\ \A j \in 1..(k - 1) : a[j] = b[j]
          /\ Ord(a[k]) < Ord(b[k])

\* sorted(files) of lines 174, 218
Sorted(files) ==
    CHOOSE seq \in [1..Cardinality(files) -> files] :
        /\ \A f \in files : \E k \in DOMAIN seq : seq[k] = f
        /\ \A j, k \in DOMAIN seq : j < k => StrLess(seq[j], seq[k])

(***************************************************************************)
(* The tests that drive _apply_migration                                   *)
(***************************************************************************)

\* lines 133-161: one file, then commit
CreatesTables == "test_migration_001_creates_tables"
\* lines 168-196: every file, commit inside the for loop (line 180)
SequenceApplies == "test_migration_sequence_applies"
\* lines 203-229 (and 260-281, 306-331, 366-392): every file, commit after the loop
FinalSchema == "test_migration_final_schema_matches_profiles"

Tests == {CreatesTables, SequenceApplies, FinalSchema}

\* line 180 is inside the for loop, lines 144 and 224 follow the last file
CommitsEachFile(t) == t \in {CreatesTables, SequenceApplies}

\* the texts a test's files are drawn from
FileTexts(t) == IF t = CreatesTables THEN Texts ELSE SequenceTexts

\* a call on the connection: cur.execute(stmt) with the error it raised (<<>>
\* when it returned), or db_connection.commit(); file is the file being applied
Execute(stmt, e) == [op |-> "execute", stmt |-> stmt, err |-> e, file |-> fi]
CommitCall == [op |-> "commit", stmt |-> <<>>, err |-> <<>>, file |-> fi]

Init ==
    /\ test \in Tests
    /\ table_prefix \in Prefixes
    /\ migration_files \in
         IF test = CreatesTables
         THEN { << SqlFile(<<"0","0","1">>) >> }
         ELSE { Sorted(files) : files \in SUBSET FileNames }
    /\ fi = 1
    /\ pc = "read"
    /\ sql_content = <<>>
    /\ sql_filtered = <<>>
    /\ sql_prefixed = <<>>
    /\ sql = <<>>
    /\ statements = <<>>
    /\ si = 1
    /\ log = <<>>
    /\ raised = <<>>
    /\ MigrateIdle /\ SessionIdle /\ RowsIdle /\ ScriptIdle

\* a variant that strips the comments before it drops the suffixed-table lines
ReadAndRewriteCommentsFirst ==
    /\ pc = "read"
    /\ fi <= Len(migration_files)
    /\ \E content \in FileTexts(test) :
          LET stripped == StripComments(content)
              filtered == StripSuffixedLines(stripped)
              prefixed == ReplaceTableNames(filtered, table_prefix)
          IN  /\ sql_content' = content
              /\ sql_filtered' = filtered
              /\ sql_prefixed' = prefixed
              /\ sql' = prefixed
              /\ statements' = Split(prefixed, ";")
    /\ si' = 1
    /\ pc' = "loop"
    /\ UNCHANGED <<test, table_prefix, migration_files, fi, log, raised>>
    /\ UNCHANGED <<migrateVars, sessionVars, rowVars, scriptVars>>

\* lines 140-143, 178-179, 222-223: read the next file and enter _apply_migration,
\* lines 47-83: rewrite its text and split it
ReadAndRewrite ==
    /\ pc = "read"
    /\ fi <= Len(migration_files)
    /\ \E content \in FileTexts(test) :
          LET filtered == StripSuffixedLines(content)
              prefixed == ReplaceTableNames(filtered, table_prefix)
              stripped == StripComments(prefixed)
          IN  /\ sql_content' = content
              /\ sql_filtered' = filtered
              /\ sql_prefixed' = prefixed
              /\ sql' = stripped
              /\ statements' = Split(stripped, ";")
    /\ si' = 1
    /\ pc' = "loop"
    /\ UNCHANGED <<test, table_prefix, migration_files, fi, log, raised>>
    /\ UNCHANGED <<migrateVars, sessionVars, rowVars, scriptVars>>

\* lines 84-90: an iteration that takes one of the two continue branches
SkipStatement ==
    /\ pc = "loop"
    /\ si <= Len(statements)
    /\ ~Executes(statements[si])
    /\ si' = si + 1
    /\ UNCHANGED <<test, table_prefix, migration_files, fi, pc, sql_content,
                   sql_filtered, sql_prefixed, sql, statements, log, raised>>
    /\ UNCHANGED <<migrateVars, sessionVars, rowVars, scriptVars>>

\* lines 91-92: cur.execute(stmt) returns
ExecuteStatement ==
    /\ pc = "loop"
    /\ si <= Len(statements)
    /\ Executes(statements[si])
    /\ log' = Append(log, Execute(Strip(statements[si]), <<>>))
    /\ si' = si + 1
    /\ UNCHANGED <<test, table_prefix, migration_files, fi, pc, sql_content,
                   sql_filtered, sql_prefixed, sql, statements, raised>>
    /\ UNCHANGED <<migrateVars, sessionVars, rowVars, scriptVars>>

\* lines 91-95: cur.execute(stmt) raises e; the RuntimeError leaves the function
\* and, nothing catching it, the test
ExecuteRaises ==
    /\ pc = "loop"
    /\ si <= Len(statements)
    /\ Executes(statements[si])
    /\ \E e \in DbErrors :
          /\ raised' = ErrorMessage(Strip(statements[si]), e)
          /\ log' = Append(log, Execute(Strip(statements[si]), e))
    /\ pc' = "raised"
    /\ UNCHANGED <<test, table_prefix, migration_files, fi, sql_content,
                   sql_filtered, sql_prefixed, sql, statements, si>>
    /\ UNCHANGED <<migrateVars, sessionVars, rowVars, scriptVars>>

\* the for loop of line 83 ends and _apply_migration returns;
\* lines 144, 180: db_connection.commit() follows the call
CommitAfterFile ==
    /\ pc = "loop"
    /\ si > Len(statements)
    /\ CommitsEachFile(test)
    /\ log' = Append(log, CommitCall)
    /\ fi' = fi + 1
    /\ pc' = IF fi < Len(migration_files) THEN "read" ELSE "verify"
    /\ UNCHANGED <<test, table_prefix, migration_files, sql_content,
                   sql_filtered, sql_prefixed, sql, statements, si, raised>>
    /\ UNCHANGED <<migrateVars, sessionVars, rowVars, scriptVars>>

\* lines 221-223: _apply_migration returns and the for loop takes the next file
NextFile ==
    /\ pc = "loop"
    /\ si > Len(statements)
    /\ ~CommitsEachFile(test)
    /\ fi' = fi + 1
    /\ pc' = "read"
    /\ UNCHANGED <<test, table_prefix, migration_files, sql_content,
                   sql_filtered, sql_prefixed, sql, statements, si, log, raised>>
    /\ UNCHANGED <<migrateVars, sessionVars, rowVars, scriptVars>>

\* line 224 (278, 327, 388): the for loop is over, one commit
CommitAfterLoop ==
    /\ pc = "read"
    /\ fi > Len(migration_files)
    /\ ~CommitsEachFile(test)
    /\ log' = Append(log, CommitCall)
    /\ pc' = "verify"
    /\ UNCHANGED <<test, table_prefix, migration_files, fi, sql_content,
                   sql_filtered, sql_prefixed, sql, statements, si, raised>>
    /\ UNCHANGED <<migrateVars, sessionVars, rowVars, scriptVars>>

\* line 176-181 with no file at all: the loop body never runs
NoFiles ==
    /\ pc = "read"
    /\ fi > Len(migration_files)
    /\ CommitsEachFile(test)
    /\ pc' = "verify"
    /\ UNCHANGED <<test, table_prefix, migration_files, fi, sql_content,
                   sql_filtered, sql_prefixed, sql, statements, si, log, raised>>
    /\ UNCHANGED <<migrateVars, sessionVars, rowVars, scriptVars>>

Next ==
    \/ ReadAndRewrite
    \/ SkipStatement
    \/ ExecuteStatement
    \/ ExecuteRaises
    \/ CommitAfterFile
    \/ NextFile
    \/ CommitAfterLoop
    \/ NoFiles

Spec == Init /\ [][Next]_vars

(***************************************************************************)
(* What the properties below speak of                                      *)
(***************************************************************************)

\* the positions at which pat occurs in s
Occurrences(s, pat) == {i \in 1..Len(s) : StartsWithAt(s, i, pat)}

\* the statements of file f passed to cur.execute so far, in order
FileExecuted(f) ==
    LET calls == SelectSeq(log, LAMBDA c : c.op = "execute" /\ c.file = f)
    IN  [k \in 1..Len(calls) |-> calls[k].stmt]

\* the for loop of line 83 has run to its end for the file being applied
LoopDone == pc = "loop" /\ si > Len(statements)

IsPrefixOf(a, b) == Len(a) <= Len(b) /\ SubSeq(b, 1, Len(a)) = a

\* the part of a line before the first occurrence of a marker
BeforeMarker(line, marker) ==
    IF Occurrences(line, marker) = {} THEN line
    ELSE SubSeq(line, 1, Min(Occurrences(line, marker)) - 1)

(***************************************************************************)
(* C1: each occurrence of a canonical table name, delimited or bare, is    *)
(* replaced by the prefix, an underscore and the name, the prefix applied  *)
(* once.                                                                   *)
(***************************************************************************)

\* one pass over the text that puts the prefix once before every name
RECURSIVE PrefixOnce(_, _)
PrefixOnce(s, prefix) ==
    IF s = <<>> THEN <<>>
    ELSE IF \E k \in 1..4 : StartsWith(s, TableNames[k])
    THEN LET name == TableNames[CHOOSE k \in 1..4 : StartsWith(s, TableNames[k])]
         IN  Prefixed(prefix, name)
             \o PrefixOnce(SubSeq(s, Len(name) + 1, Len(s)), prefix)
    ELSE <<Head(s)>> \o PrefixOnce(Tail(s), prefix)

\* C1 as claimed: the text after the replace calls is the text with every name
\* prefixed exactly once
C1_PrefixAppliedOnce == sql_prefixed = PrefixOnce(sql_filtered, table_prefix)

(***************************************************************************)
(* C2: for a text holding the four names delimited and bare, no executed   *)
(* statement holds an un-prefixed name, and every reference of the text    *)
(* that reaches a statement appears there as prefix_name.                  *)
(***************************************************************************)

\* a bare occurrence of name: one that is not between two grave accents
BareOccurrences(s, name) ==
    {i \in Occurrences(s, name) :
        ~(i > 1 /\ s[i - 1] = GRAVE /\ StartsWithAt(s, i + Len(name), <<GRAVE>>))}

HoldsAllForms(s) ==
    \A k \in 1..4 : /\ Occurrences(s, Backtick(TableNames[k])) # {}
                    /\ BareOccurrences(s, TableNames[k]) # {}

\* the statements the same text gives when the names are left as they are
OriginalStatements ==
    LET frags == Split(StripComments(sql_filtered), ";")
        kept  == SelectSeq(frags, Executes)
    IN  [k \in 1..Len(kept) |-> Strip(kept[k])]

\* every occurrence of name in stmt is immediately preceded by prefix_
AlwaysPrefixed(stmt, prefix, name) ==
    \A i \in Occurrences(stmt, name) :
        /\ i > Len(prefix) + 1
        /\ StartsWithAt(stmt, i - Len(prefix) - 1, prefix \o <<"_">>)

\* C2 as claimed, for the test that applies one file
C2_AllReferencesPrefixed ==
    (LoopDone /\ test = CreatesTables /\ HoldsAllForms(sql_content)) =>
        LET executed == FileExecuted(fi)
            original == OriginalStatements
        IN  /\ Len(executed) = Len(original)
            /\ \A k \in 1..Len(executed) : \A n \in 1..4 :
                  LET name == TableNames[n]
                      pname == Prefixed(table_prefix, name)
                  IN  /\ AlwaysPrefixed(executed[k], table_prefix, name)
                      /\ Cardinality(Occurrences(executed[k], Backtick(pname)))
                           = Cardinality(Occurrences(original[k], Backtick(name)))
                      /\ Cardinality(BareOccurrences(executed[k], pname))
                           = Cardinality(BareOccurrences(original[k], name))

(***************************************************************************)
(* C3: when cur.execute raises on a statement, the error that leaves       *)
(* _apply_migration holds that statement's text and the database error's   *)
(* text, and no later statement is passed to cur.execute.                  *)
(***************************************************************************)

\* the state part: the failed call is the last of the log, it is the fragment the
\* loop stands at, and the message holds its text and the error's
C3_RaisedState ==
    raised # <<>> =>
        /\ pc = "raised"
        /\ log # <<>>
        /\ LET failed == log[Len(log)]
           IN  /\ failed.op = "execute"
               /\ failed.err \in DbErrors
               /\ failed.stmt = Strip(statements[si])
               /\ failed.stmt # <<>>
               /\ Contains(raised, failed.stmt)
               /\ Contains(raised, failed.err)
               /\ \A k \in 1..(Len(log) - 1) : log[k].err = <<>>

\* C3: the state part always, and once raised the connection is asked nothing more
C3_FailFast == []C3_RaisedState /\ [][raised # <<>> => log' = log]_vars

\* a statement failed while a later fragment of the same text would have executed
C3_Witness ==
    /\ raised # <<>>
    /\ \E j \in (si + 1)..Len(statements) : Executes(statements[j])

(***************************************************************************)
(* C4: the text left by comment stripping is split on ";" and each         *)
(* non-empty trimmed fragment that is no database directive is executed    *)
(* exactly once, in the order of the text.                                 *)
(***************************************************************************)

\* the trimmed fragments of a text that are to be executed, in order
Wanted(text) ==
    LET frags   == Split(text, ";")
        trimmed == [k \in 1..Len(frags) |-> Strip(frags[k])]
    IN  SelectSeq(trimmed, LAMBDA f : f # <<>> /\ ~IsControl(f))

\* C4: while the loop runs the executed statements are a prefix of the wanted ones,
\* and all of them when it ends
C4_EachFragmentOnceInOrder ==
    /\ pc \in {"loop", "raised"} => IsPrefixOf(FileExecuted(fi), Wanted(sql))
    /\ LoopDone => FileExecuted(fi) = Wanted(sql)

\* a text with a skipped directive, an empty fragment and two executed ones
C4_Witness ==
    /\ LoopDone
    /\ Len(FileExecuted(fi)) >= 2
    /\ \E k \in 1..Len(statements) : Strip(statements[k]) = <<>>
    /\ \E k \in 1..Len(statements) : IsControl(Strip(statements[k]))

(***************************************************************************)
(* C5: no statement that begins, whatever the case of its letters, with    *)
(* CREATE DATABASE or with USE is passed to cur.execute.                   *)
(***************************************************************************)

\* the words of a statement: the maximal runs of characters that are not whitespace
RECURSIVE Words(_)
Words(s) ==
    LET t == LStrip(s)
        ends == {i \in 1..Len(t) : t[i] \in Whitespace}
    IN  IF t = <<>> THEN <<>>
        ELSE IF ends = {} THEN <<t>>
        ELSE <<SubSeq(t, 1, Min(ends) - 1)>> \o Words(SubSeq(t, Min(ends), Len(t)))

\* the statement is a USE statement or a CREATE DATABASE statement
BeginsWithDirective(stmt) ==
    LET w == Words(Upper(stmt))
    IN  \/ Len(w) >= 2 /\ w[1] = <<"U","S","E">>
        \/ Len(w) >= 2 /\ w[1] = <<"C","R","E","A","T","E">>
                       /\ StartsWith(w[2], <<"D","A","T","A","B","A","S","E">>)

\* C5 as claimed
C5_NoDirectiveExecuted ==
    \A k \in 1..Len(log) :
        log[k].op = "execute" => ~BeginsWithDirective(log[k].stmt)

(***************************************************************************)
(* C6: every line whose lowercased content holds a suffixed table name is  *)
(* removed before anything else, nothing of it reaches a statement, and    *)
(* every other line is kept.                                               *)
(***************************************************************************)

\* the lowercased line holds profiles2, domains2, areas2 or tasks2
NamesSuffixedTable(line) ==
    \E t \in SuffixedNames : Occurrences(Lower(line), t) # {}

\* C6: the text handed to the later stages is the other lines, in order, and no
\* executed statement holds a suffixed name
C6_SuffixedLinesRemoved ==
    /\ pc \in {"loop", "raised"} =>
          sql_filtered = Join(SelectSeq(Split(sql_content, "\n"),
                                        LAMBDA line : ~NamesSuffixedTable(line)), "\n")
    /\ \A k \in 1..Len(log) :
          log[k].op = "execute" => ~NamesSuffixedTable(log[k].stmt)

\* a text with a removed line whose name is not written in lower case, and a kept
\* line that was executed
C6_Witness ==
    /\ LoopDone
    /\ FileExecuted(fi) # <<>>
    /\ \E k \in 1..Len(Split(sql_content, "\n")) :
          LET line == Split(sql_content, "\n")[k]
          IN  NamesSuffixedTable(line) /\ ~MentionsSuffixedAsWritten(line)

(***************************************************************************)
(* C7: on every line holding the marker "--" everything from the first     *)
(* marker to the end of the line is deleted, so no executed statement      *)
(* holds the marker or what followed it.                                   *)
(***************************************************************************)

\* C7: every line is cut before its first marker whatever precedes the marker
\* (the hash stage and the trimming then apply), and no executed statement holds it
C7_DashCommentsRemoved ==
    /\ pc \in {"loop", "raised"} =>
          LET ins  == Split(sql_prefixed, "\n")
              outs == [k \in 1..Len(ins) |->
                         RStrip(StripHashComment(BeforeMarker(ins[k], DashDash)))]
          IN  sql = Join(SelectSeq(outs, LAMBDA line : line # <<>>), "\n")
    /\ \A k \in 1..Len(log) :
          log[k].op = "execute" => Occurrences(log[k].stmt, DashDash) = {}

\* a line with text, a quote, the marker and text after it, whose head was executed
C7_Witness ==
    /\ LoopDone
    /\ FileExecuted(fi) # <<>>
    /\ \E k \in 1..Len(Split(sql_prefixed, "\n")) :
          LET line == Split(sql_prefixed, "\n")[k]
              at == Find(line, DashDash)
          IN  /\ at > 1
              /\ at + 1 < Len(line)
              /\ Contains(SubSeq(line, 1, at - 1), Quote)

(***************************************************************************)
(* C8: on every line that, after the "--" stripping, holds "#", the text   *)
(* from the first "#" on is deleted, except when a quote character stands  *)
(* to the left of that "#": then the "#" and what follows it are kept.     *)
(***************************************************************************)

\* the characters that open and close a string literal in MySQL
QuoteCharacters == {"'", "\""}

\* what the claim makes of a line out of the dash stage
HashStageClaimed(line) ==
    LET before == BeforeMarker(line, Hash)
    IN  IF \E i \in 1..Len(before) : before[i] \in QuoteCharacters
        THEN line ELSE before

\* C8 as claimed (the trailing whitespace of a line set aside)
C8_HashCommentsRemoved ==
    pc \in {"loop", "raised"} =>
        LET ins  == Split(sql_prefixed, "\n")
            outs == [k \in 1..Len(ins) |->
                       RStrip(HashStageClaimed(StripDashComment(ins[k])))]
        IN  sql = Join(SelectSeq(outs, LAMBDA line : line # <<>>), "\n")

(***************************************************************************)
(* C9: the statements executed for a text are the composition of the five  *)
(* stages in the order suffix-line removal, name substitution, comment     *)
(* stripping, splitting, directive filtering.                              *)
(***************************************************************************)

\* the five stages composed in the order of the claim
Pipeline(text, prefix) ==
    Wanted(StripComments(ReplaceTableNames(StripSuffixedLines(text), prefix)))

\* the same stages with the comments stripped before the suffixed lines are dropped
PipelineCommentsFirst(text, prefix) ==
    Wanted(ReplaceTableNames(StripSuffixedLines(StripComments(text)), prefix))

\* C9: each stage works on the result of the one before it, and the executed
\* statements are those of the composition (a prefix of them until the loop ends)
C9_FixedPipeline ==
    /\ pc \in {"loop", "raised"} =>
          /\ sql_filtered = StripSuffixedLines(sql_content)
          /\ sql_prefixed = ReplaceTableNames(sql_filtered, table_prefix)
          /\ sql = StripComments(sql_prefixed)
          /\ statements = Split(sql, ";")
          /\ IsPrefixOf(FileExecuted(fi), Pipeline(sql_content, table_prefix))
    /\ LoopDone => FileExecuted(fi) = Pipeline(sql_content, table_prefix)

\* a text that was executed and for which another order of the stages gives
\* other statements
C9_Witness ==
    /\ LoopDone
    /\ FileExecuted(fi) # <<>>
    /\ PipelineCommentsFirst(sql_content, table_prefix) # Pipeline(sql_content, table_prefix)

(***************************************************************************)
(* C10: the files are applied in lexicographic order of their names and a  *)
(* commit follows each file: between the last statement of a file and the  *)
(* first of the next there is a commit.                                    *)
(***************************************************************************)

\* C10 as claimed
C10_CommitAfterEachFile ==
    /\ \A j, k \in 1..Len(migration_files) :
          j < k => StrLess(migration_files[j], migration_files[k])
    /\ \A j, k \in 1..Len(log) :
          (j < k /\ log[j].op = "execute" /\ log[k].op = "execute")
             => /\ log[j].file <= log[k].file
                /\ log[j].file < log[k].file
                     => \E c \in (j + 1)..(k - 1) : log[c].op = "commit"

(***************************************************************************)
(* The migration tests side by side: each invocation has its own prefix    *)
(* and runs the cleanup fixture, _apply_migration on each file of its      *)
(* test, the verification query and the cleanup fixture again. The         *)
(* statements reach one database server.                                   *)
(***************************************************************************)

\* a first file with plain CREATE TABLE statements
Migration001WithoutIfNotExists ==
    <<"-","-"," ","i","n","i","t","i","a","l"," ","t","a","b","l","e","s","\n","C","R",
      "E","A","T","E"," ","T","A","B","L","E"," ","p","r","o","f","i","l","e","s"," ",
      "(","i","d",")",";","\n","C","R","E","A","T","E"," ","T","A","B","L","E"," ","d",
      "o","m","a","i","n","s"," ","(","f","k"," ","R","E","F","E","R","E","N","C","E",
      "S"," ","p","r","o","f","i","l","e","s"," ","(","i","d",")",")",";","\n","C","R",
      "E","A","T","E"," ","T","A","B","L","E"," ","a","r","e","a","s"," ","(","f","k",
      " ","R","E","F","E","R","E","N","C","E","S"," ","d","o","m","a","i","n","s"," ",
      "(","i","d",")",")",";","\n","C","R","E","A","T","E"," ","T","A","B","L","E"," ",
      "t","a","s","k","s"," ","(","f","k"," ","R","E","F","E","R","E","N","C","E","S",
      " ","a","r","e","a","s"," ","(","i","d",")",")",";","\n">>

\* migrations/001_initial_tables.sql: creates profiles, domains, areas, tasks
\* with CREATE TABLE IF NOT EXISTS (docstrings of lines 134-137 and 433)
Migration001 ==
    <<"-","-"," ","i","n","i","t","i","a","l"," ","t","a","b","l","e","s","\n","C","R",
      "E","A","T","E"," ","T","A","B","L","E"," ","I","F"," ","N","O","T"," ","E","X",
      "I","S","T","S"," ","p","r","o","f","i","l","e","s"," ","(","i","d",")",";","\n",
      "C","R","E","A","T","E"," ","T","A","B","L","E"," ","I","F"," ","N","O","T"," ",
      "E","X","I","S","T","S"," ","d","o","m","a","i","n","s"," ","(","f","k"," ","R",
      "E","F","E","R","E","N","C","E","S"," ","p","r","o","f","i","l","e","s"," ","(",
      "i","d",")",")",";","\n","C","R","E","A","T","E"," ","T","A","B","L","E"," ","I",
      "F"," ","N","O","T"," ","E","X","I","S","T","S"," ","a","r","e","a","s"," ","(",
      "f","k"," ","R","E","F","E","R","E","N","C","E","S"," ","d","o","m","a","i","n",
      "s"," ","(","i","d",")",")",";","\n","C","R","E","A","T","E"," ","T","A","B","L",
      "E"," ","I","F"," ","N","O","T"," ","E","X","I","S","T","S"," ","t","a","s","k",
      "s"," ","(","f","k"," ","R","E","F","E","R","E","N","C","E","S"," ","a","r","e",
      "a","s"," ","(","i","d",")",")",";","\n">>

\* a later file of migrations/: alters tables the first file created
Migration002 ==
    <<"A","L","T","E","R"," ","T","A","B","L","E"," ","a","r","e","a","s"," ","A","D",
      "D"," ","s","o","r","t","_","o","r","d","e","r",";","\n","A","L","T","E","R"," ",
      "T","A","B","L","E"," ","t","a","s","k","s"," ","A","D","D"," ","s","o","r","t",
      "_","o","r","d","e","r",";","\n">>

\* the database of db_connection, where a statement's unqualified names resolve
CurrentDatabase == "darwin_dev"
\* the TABLE_SCHEMA the verification queries name
QueriedDatabase == "darwin2"

\* a table of the server
Table(db, name) == [db |-> db, name |-> name]

\* the tables the server holds when the session starts: the canonical names in
\* darwin_dev, the suffixed ones in darwin2
BaseTables ==
    { Table(CurrentDatabase, TableNames[k]) : k \in 1..Len(TableNames) }
       \cup { Table(QueriedDatabase, n) : n \in SuffixedNames }

\* the words of a statement
StatementWords(stmt) == SelectSeq(Split(stmt, " "), LAMBDA w : w # <<>>)

\* an identifier without the backticks around it
Unquoted(word) == SelectSeq(word, LAMBDA c : c # GRAVE)

KEYWORD_CREATE == <<"C","R","E","A","T","E">>
KEYWORD_ALTER == <<"A","L","T","E","R">>
KEYWORD_DROP == <<"D","R","O","P">>
KEYWORD_EXISTS == <<"E","X","I","S","T","S">>
KEYWORD_REFERENCES == <<"R","E","F","E","R","E","N","C","E","S">>

\* CREATE, ALTER or DROP: the first word of a DDL statement
KindOf(words) == Upper(words[1])

\* whether the statement says IF [NOT] EXISTS
HasIfExists(words) ==
    \E k \in 3..5 : k <= Len(words) /\ Upper(words[k]) = KEYWORD_EXISTS

\* the table a CREATE TABLE, ALTER TABLE or DROP TABLE statement names
TableOf(words) ==
    LET k == IF HasIfExists(words)
             THEN 1 + Min({j \in 3..5 : j <= Len(words) /\ Upper(words[j]) = KEYWORD_EXISTS})
             ELSE 3
    IN  Unquoted(words[k])

\* the tables its REFERENCES clauses name
ReferencesOf(words) ==
    { Unquoted(words[k + 1]) :
         k \in {j \in 1..(Len(words) - 1) : Upper(words[j]) = KEYWORD_REFERENCES} }

\* every table the statement names
TablesNamed(stmt) ==
    LET words == StatementWords(stmt)
    IN  {TableOf(words)} \cup ReferencesOf(words)

\* the names of the tables of a database
NamesIn(tables, db) == { t.name : t \in {u \in tables : u.db = db} }

\* the error the server answers a DDL statement with, <<>> when it runs it:
\* 1050 table exists, 1146 no such table, 1824 no such referenced table
ErrorOf(words, tables) ==
    LET kind   == KindOf(words)
        name   == TableOf(words)
        exists == name \in NamesIn(tables, CurrentDatabase)
    IN  IF kind = KEYWORD_CREATE
        THEN IF exists
             THEN IF HasIfExists(words) THEN <<>> ELSE <<"1","0","5","0">>
             ELSE IF ReferencesOf(words) \subseteq
                        (NamesIn(tables, CurrentDatabase) \cup {name})
                  THEN <<>> ELSE <<"1","8","2","4">>
        ELSE IF kind = KEYWORD_ALTER
        THEN IF exists THEN <<>> ELSE <<"1","1","4","6">>
        ELSE IF exists \/ HasIfExists(words) THEN <<>> ELSE <<"1","0","5","1">>

StatementError(stmt, tables) == ErrorOf(StatementWords(stmt), tables)

\* the tables of the server after it ran the statement
EffectOf(words, tables) ==
    LET t == Table(CurrentDatabase, TableOf(words))
    IN  IF ErrorOf(words, tables) # <<>> THEN tables
        ELSE IF KindOf(words) = KEYWORD_CREATE THEN tables \cup {t}
        ELSE IF KindOf(words) = KEYWORD_DROP THEN tables \ {t}
        ELSE tables

StatementEffect(stmt, tables) == EffectOf(StatementWords(stmt), tables)

\* the test invocations that run side by side
Callers == {1, 2}

Idempotent == "test_migration_001_idempotent"
MigrationTests == {CreatesTables, SequenceApplies, Idempotent}

\* the texts a test hands to _apply_migration, in order: the first file (lines
\* 139-143), the first file twice (lines 438-448), every file (lines 174-180)
Plan(t) ==
    IF t = CreatesTables THEN <<Migration001>>
    ELSE IF t = Idempotent THEN <<Migration001, Migration001>>
    ELSE <<Migration001, Migration002>>

\* lines 110 and 121: the order in which the fixture drops the tables
DropSuffixes == <<tasks, areas, domains, profiles>>

\* lines 112 and 123: the text of the DROP statement
DropStatement(prefix, suffix) ==
    <<"D","R","O","P"," ","T","A","B","L","E"," ","I","F"," ","E","X","I","S","T","S"," ">>
       \o Backtick(Prefixed(prefix, suffix))

\* lines 155-160: expected_tables
ExpectedTables(prefix) == { Prefixed(prefix, TableNames[k]) : k \in 1..Len(TableNames) }

\* TABLE_NAME LIKE '{prefix}_%' (lines 150, 186, 454): the characters of the prefix
\* in place, an underscore of the pattern standing for any character, one more
\* character, then anything; letters compare without case
Like(name, prefix) ==
    /\ Len(name) >= Len(prefix) + 1
    /\ \A k \in 1..Len(prefix) :
          prefix[k] = "_" \/ LowerChar(name[k]) = LowerChar(prefix[k])

\* the result of the verification query: the tables of darwin2 the pattern matches
QueryTables(tables, prefix) ==
    { n \in NamesIn(tables, QueriedDatabase) : Like(n, prefix) }

\* the tables of the whole server the pattern matches
TablesMatching(tables, prefix) == { t.name : t \in {u \in tables : Like(u.name, prefix)} }

\* an invocation before its fixture has run
NewCaller(t, prefix) ==
    [test |-> t, prefix |-> prefix, pc |-> "setup", di |-> 1, fi |-> 1,
     statements |-> <<>>, si |-> 1, raised |-> <<>>, touched |-> {},
     after |-> <<>>, observed |-> {}, outcome |-> ""]

MigrateInit ==
    /\ catalog = BaseTables
    /\ \E t \in [Callers -> MigrationTests], p \in [Callers -> Prefixes] :
          /\ \A c, d \in Callers : c # d => p[c] # p[d]
          /\ callers = [c \in Callers |-> NewCaller(t[c], p[c])]
    /\ HarnessIdle /\ SessionIdle /\ RowsIdle /\ ScriptIdle

\* lines 109-114 and 120-125: one DROP TABLE IF EXISTS of the cleanup fixture;
\* whatever it raises is passed over
CallerDrops(c) ==
    LET me   == callers[c]
        stmt == DropStatement(me.prefix, DropSuffixes[me.di])
    IN  /\ me.pc \in {"setup", "teardown"}
        /\ me.di <= Len(DropSuffixes)
        /\ catalog' = StatementEffect(stmt, catalog)
        /\ callers' = [callers EXCEPT ![c] =
              [me EXCEPT !.di = me.di + 1,
                         !.touched = me.touched \cup {Prefixed(me.prefix, DropSuffixes[me.di])}]]
        /\ UNCHANGED <<harnessVars, sessionVars, rowVars, scriptVars>>

\* lines 116 and 126: db_connection.commit() ends the cleanup
CallerCleanupCommits(c) ==
    LET me == callers[c]
    IN  /\ me.pc \in {"setup", "teardown"}
        /\ me.di > Len(DropSuffixes)
        /\ callers' = [callers EXCEPT ![c] =
              [me EXCEPT !.di = 1,
                         !.pc = IF me.pc = "setup" THEN "read" ELSE "done"]]
        /\ UNCHANGED <<catalog, harnessVars, sessionVars, rowVars, scriptVars>>

\* a variant that rewrites every invocation's text with the one prefix of the
\* module-scoped fixture migration_prefix
CallerReadsModulePrefix(c) ==
    LET me     == callers[c]
        shared == CHOOSE p \in Prefixes : TRUE
        text   == Plan(me.test)[me.fi]
    IN  /\ me.pc = "read"
        /\ me.fi <= Len(Plan(me.test))
        /\ callers' = [callers EXCEPT ![c] =
              [me EXCEPT !.pc = "loop", !.si = 1,
                         !.statements = Split(StripComments(ReplaceTableNames(
                              StripSuffixedLines(text), shared)), ";")]]
        /\ UNCHANGED <<catalog, harnessVars, sessionVars, rowVars, scriptVars>>

\* lines 142-143, 178-179, 443, 447: read the file, enter _apply_migration;
\* lines 47-83: rewrite the text with the invocation's prefix and split it
CallerReads(c) ==
    LET me   == callers[c]
        text == Plan(me.test)[me.fi]
    IN  /\ me.pc = "read"
        /\ me.fi <= Len(Plan(me.test))
        /\ callers' = [callers EXCEPT ![c] =
              [me EXCEPT !.pc = "loop", !.si = 1,
                         !.statements = Split(StripComments(ReplaceTableNames(
                              StripSuffixedLines(text), me.prefix)), ";")]]
        /\ UNCHANGED <<catalog, harnessVars, sessionVars, rowVars, scriptVars>>

\* lines 84-90: an iteration that takes one of the two continue branches
CallerSkips(c) ==
    LET me == callers[c]
    IN  /\ me.pc = "loop"
        /\ me.si <= Len(me.statements)
        /\ ~Executes(me.statements[me.si])
        /\ callers' = [callers EXCEPT ![c] = [me EXCEPT !.si = me.si + 1]]
        /\ UNCHANGED <<catalog, harnessVars, sessionVars, rowVars, scriptVars>>

\* lines 91-95: cur.execute(stmt); when the server answers with an error the
\* RuntimeError leaves the test and the fixture's cleanup follows
CallerExecutes(c) ==
    LET me   == callers[c]
        stmt == Strip(me.statements[me.si])
        e    == StatementError(stmt, catalog)
    IN  /\ me.pc = "loop"
        /\ me.si <= Len(me.statements)
        /\ Executes(me.statements[me.si])
        /\ catalog' = StatementEffect(stmt, catalog)
        /\ callers' = [callers EXCEPT ![c] =
              IF e = <<>>
              THEN [me EXCEPT !.si = me.si + 1,
                              !.touched = me.touched \cup TablesNamed(stmt)]
              ELSE [me EXCEPT !.raised = ErrorMessage(stmt, e),
                              !.outcome = "failed",
                              !.pc = "teardown",
                              !.touched = me.touched \cup TablesNamed(stmt)]]
        /\ UNCHANGED <<harnessVars, sessionVars, rowVars, scriptVars>>

\* lines 144, 180, 444, 448: _apply_migration returned, db_connection.commit();
\* after records the tables the prefix has at that point
CallerCommits(c) ==
    LET me == callers[c]
    IN  /\ me.pc = "loop"
        /\ me.si > Len(me.statements)
        /\ callers' = [callers EXCEPT ![c] =
              [me EXCEPT !.fi = me.fi + 1,
                         !.after = Append(me.after, TablesMatching(catalog, me.prefix)),
                         !.pc = IF me.fi < Len(Plan(me.test)) THEN "read" ELSE "verify"]]
        /\ UNCHANGED <<catalog, harnessVars, sessionVars, rowVars, scriptVars>>

\* lines 147-161, 183-196, 451-464: the query on INFORMATION_SCHEMA.TABLES and
\* the assertion on its result
CallerVerifies(c) ==
    LET me     == callers[c]
        tables == QueryTables(catalog, me.prefix)
    IN  /\ me.pc = "verify"
        /\ callers' = [callers EXCEPT ![c] =
              [me EXCEPT !.observed = tables,
                         !.outcome = IF tables = ExpectedTables(me.prefix)
                                     THEN "passed" ELSE "failed",
                         !.pc = "teardown"]]
        /\ UNCHANGED <<catalog, harnessVars, sessionVars, rowVars, scriptVars>>

MigrateNext ==
    \/ \E c \in Callers : CallerDrops(c)
    \/ \E c \in Callers : CallerCleanupCommits(c)
    \/ \E c \in Callers : CallerReads(c)
    \/ \E c \in Callers : CallerSkips(c)
    \/ \E c \in Callers : CallerExecutes(c)
    \/ \E c \in Callers : CallerCommits(c)
    \/ \E c \in Callers : CallerVerifies(c)

MigrateSpec == MigrateInit /\ [][MigrateNext]_vars

(***************************************************************************)
(* C11: applying the first migration twice in a row to the same prefix     *)
(* raises no error on the second application and leaves the tables under   *)
(* the prefix as they were after the first: the four prefixed tables.      *)
(***************************************************************************)

C13_PrefixIsolation ==
    \A c, d \in Callers :
       c # d =>
          /\ callers[c].touched \cap callers[d].touched = {}
          /\ \A n \in callers[c].touched : ~Like(n, callers[d].prefix)
          /\ TablesMatching(catalog, callers[c].prefix)
                \cap TablesMatching(catalog, callers[d].prefix) = {}

\* the two invocations are inside their statement loops at the same time, each
\* with tables created
C13_Witness ==
    /\ \A c \in Callers :
          /\ callers[c].pc = "loop"
          /\ callers[c].si > 1
          /\ TablesMatching(catalog, callers[c].prefix) # {}
    /\ callers[1].test = callers[2].test

(***************************************************************************)
(* The pytest session on the shared connection: db_connection is created   *)
(* once with autocommit off, every test and fixture uses it in turn, and   *)
(* a commit or rollback ends the transaction that whoever ran before left  *)
(* open. A database statement may raise whenever it is executed.           *)
(***************************************************************************)

\* the number of tests run in a session
MaxUnits == 3

CascadeTest == "test_delete_profile_cascades_to_domains"
HierarchyTest == "test_delete_profile_cascades_full_hierarchy"
SessionTests == {CascadeTest, HierarchyTest, CreatesTables}

\* no test is running
NoUnit == [name |-> "", n |-> 0, pc |-> "", di |-> 1, outcome |-> ""]
\* conftest.py line 31: conn.close() has run
SessionClosed == [name |-> "closed", n |-> 0, pc |-> "", di |-> 1, outcome |-> ""]

\* a write of the n-th test of the session
Write(n, stmt) == [unit |-> n, stmt |-> stmt]

\* an error the database raised to the n-th test, and what the code did with
\* it: "raised" when it left the test or fixture, "passed over" when an except
\* clause dropped it, "skipped" when the test turned it into pytest.skip;
\* again says whether the statement was executed once more after it
DbError(n, stmt, handling, again) ==
    [unit |-> n, stmt |-> stmt, handling |-> handling, again |-> again]

\* the test ends: outcome as pytest reports it, ended the last call it made to
\* end its transaction
Finish(outcome, ended) ==
    /\ finished' = Append(finished, [name |-> unit.name, outcome |-> outcome, ended |-> ended])
    /\ unit' = NoUnit

SessionInit ==
    /\ committed = {}
    /\ pending = {}
    /\ unit = NoUnit
    /\ finished = <<>>
    /\ errors = {}
    /\ HarnessIdle /\ MigrateIdle /\ RowsIdle /\ ScriptIdle

\* pytest calls the next test; a migration test starts in its autouse fixture
StartTest ==
    /\ unit = NoUnit
    /\ Len(finished) < MaxUnits
    /\ \E name \in SessionTests :
          unit' = [name |-> name, n |-> Len(finished) + 1, di |-> 1, outcome |-> "",
                   pc |-> IF name = CreatesTables THEN "cleanup_before" ELSE "insert"]
    /\ UNCHANGED <<committed, pending, finished, errors>>
    /\ UNCHANGED <<harnessVars, migrateVars, rowVars, scriptVars>>

\* test_migrations.py lines 109-114 and 120-125: a DROP TABLE IF EXISTS of the
\* fixture. A DDL statement the server runs commits the open transaction; an
\* exception is passed over (except Exception: pass) and the loop goes on
FixtureDrops ==
    /\ unit.pc \in {"cleanup_before", "cleanup_after"}
    /\ unit.di <= Len(DropSuffixes)
    /\ \/ /\ committed' = committed \cup pending
          /\ pending' = {}
          /\ errors' = errors
       \/ /\ errors' = errors \cup {DbError(unit.n, "DROP TABLE", "passed over", FALSE)}
          /\ UNCHANGED <<committed, pending>>
    /\ unit' = [unit EXCEPT !.di = unit.di + 1]
    /\ UNCHANGED finished
    /\ UNCHANGED <<harnessVars, migrateVars, rowVars, scriptVars>>

\* lines 116 and 126: db_connection.commit() after the loop; after the second
\* one the test is over
FixtureCommits ==
    /\ unit.pc \in {"cleanup_before", "cleanup_after"}
    /\ unit.di > Len(DropSuffixes)
    /\ committed' = committed \cup pending
    /\ pending' = {}
    /\ IF unit.pc = "cleanup_before"
       THEN /\ unit' = [unit EXCEPT !.pc = "apply", !.di = 1]
            /\ UNCHANGED finished
       ELSE Finish(unit.outcome, "commit")
    /\ UNCHANGED errors
    /\ UNCHANGED <<harnessVars, migrateVars, rowVars, scriptVars>>

\* lines 142-143 with 91-95: the statements of the migration are executed; the
\* server commits with each DDL statement it runs; when one raises, the
\* RuntimeError leaves the test and the fixture's second half follows
MigrationExecutes ==
    /\ unit.pc = "apply"
    /\ \/ /\ committed' = committed \cup pending \cup {Write(unit.n, "CREATE TABLE")}
          /\ pending' = {}
          /\ errors' = errors
          /\ unit' = [unit EXCEPT !.pc = "commit"]
       \/ /\ errors' = errors \cup {DbError(unit.n, "CREATE TABLE", "raised", FALSE)}
          /\ unit' = [unit EXCEPT !.pc = "cleanup_after", !.outcome = "failed"]
          /\ UNCHANGED <<committed, pending>>
    /\ UNCHANGED finished
    /\ UNCHANGED <<harnessVars, migrateVars, rowVars, scriptVars>>

\* line 144: db_connection.commit() after _apply_migration
MigrationCommits ==
    /\ unit.pc = "commit"
    /\ committed' = committed \cup pending
    /\ pending' = {}
    /\ unit' = [unit EXCEPT !.pc = "verify"]
    /\ UNCHANGED <<finished, errors>>
    /\ UNCHANGED <<harnessVars, migrateVars, rowVars, scriptVars>>

\* lines 147-161: the query and the assertion, which holds or fails
MigrationVerifies ==
    /\ unit.pc = "verify"
    /\ \E outcome \in {"passed", "failed"} :
          unit' = [unit EXCEPT !.pc = "cleanup_after", !.outcome = outcome]
    /\ UNCHANGED <<committed, pending, finished, errors>>
    /\ UNCHANGED <<harnessVars, migrateVars, rowVars, scriptVars>>

\* test_cascades.py lines 20-35 and 152-183: the INSERT statements; when one
\* raises, the exception leaves the test past the rollback of its last line
TestInserts ==
    /\ unit.pc = "insert"
    /\ \/ /\ pending' = pending \cup {Write(unit.n, "INSERT")}
          /\ unit' = [unit EXCEPT !.pc = "delete"]
          /\ UNCHANGED <<finished, errors>>
       \/ /\ errors' = errors \cup {DbError(unit.n, "INSERT", "raised", FALSE)}
          /\ Finish("failed", "none")
          /\ UNCHANGED pending
    /\ UNCHANGED committed
    /\ UNCHANGED <<harnessVars, migrateVars, rowVars, scriptVars>>

\* lines 38 and 186-187: DELETE FROM profiles2; when it raises, line 195 catches
\* an IntegrityError in the full-hierarchy test, and nothing catches it in the
\* other
TestDeletes ==
    /\ unit.pc = "delete"
    /\ \/ /\ pending' = pending \cup {Write(unit.n, "DELETE")}
          /\ unit' = [unit EXCEPT !.pc = "assert"]
          /\ UNCHANGED <<finished, errors>>
       \/ /\ unit.name = HierarchyTest
          /\ errors' = errors \cup {DbError(unit.n, "DELETE", "skipped", FALSE)}
          /\ unit' = [unit EXCEPT !.pc = "manual"]
          /\ UNCHANGED <<finished, pending>>
       \/ /\ unit.name = CascadeTest
          /\ errors' = errors \cup {DbError(unit.n, "DELETE", "raised", FALSE)}
          /\ Finish("failed", "none")
          /\ UNCHANGED pending
    /\ UNCHANGED committed
    /\ UNCHANGED <<harnessVars, migrateVars, rowVars, scriptVars>>

\* lines 196-205: the children are deleted, the DELETE FROM profiles2 that
\* failed is executed again, and pytest.skip leaves the test past the rollback
ManualCleanup ==
    /\ unit.pc = "manual"
    /\ pending' = pending \cup {Write(unit.n, "DELETE")}
    /\ errors' = (errors \ {DbError(unit.n, "DELETE", "skipped", FALSE)})
                    \cup {DbError(unit.n, "DELETE", "skipped", TRUE)}
    /\ Finish("skipped", "none")
    /\ UNCHANGED committed
    /\ UNCHANGED <<harnessVars, migrateVars, rowVars, scriptVars>>

\* lines 41-42 and 188-193: the assertions; one that fails leaves the test
\* past the rollback
TestAsserts ==
    /\ unit.pc = "assert"
    /\ \/ /\ unit' = [unit EXCEPT !.pc = "rollback"]
          /\ UNCHANGED finished
       \/ Finish("failed", "none")
    /\ UNCHANGED <<committed, pending, errors>>
    /\ UNCHANGED <<harnessVars, migrateVars, rowVars, scriptVars>>

\* lines 44 and 207: db_connection.rollback()
TestRollsBack ==
    /\ unit.pc = "rollback"
    /\ pending' = {}
    /\ Finish("passed", "rollback")
    /\ UNCHANGED <<committed, errors>>
    /\ UNCHANGED <<harnessVars, migrateVars, rowVars, scriptVars>>

\* conftest.py lines 81-87 and 31: at the end of the session seed_test_profile
\* deletes its rows and commits, then the connection is closed
SessionEnds ==
    /\ unit = NoUnit
    /\ committed' = committed \cup pending
    /\ pending' = {}
    /\ unit' = SessionClosed
    /\ UNCHANGED <<finished, errors>>
    /\ UNCHANGED <<harnessVars, migrateVars, rowVars, scriptVars>>

SessionNext ==
    \/ StartTest
    \/ FixtureDrops
    \/ FixtureCommits
    \/ MigrationExecutes
    \/ MigrationCommits
    \/ MigrationVerifies
    \/ TestInserts
    \/ TestDeletes
    \/ ManualCleanup
    \/ TestAsserts
    \/ TestRollsBack
    \/ SessionEnds

SessionSpec == SessionInit /\ [][SessionNext]_vars

(***************************************************************************)
(* C14: each test's unit of work on the shared connection ends in a commit *)
(* on success and in a rollback when an assertion fails or an exception is *)
(* raised inside the test, so that no write of a failed unit is ever       *)
(* committed, not even by a later commit on the same connection.           *)
(***************************************************************************)

\* C14 as claimed: a test that passed ended in a commit, a test that failed
\* ended in a rollback, and nothing a failed test wrote is among the committed
\* writes
C14_FailedUnitRolledBack ==
    \A k \in 1..Len(finished) :
       /\ finished[k].outcome = "passed" => finished[k].ended = "commit"
       /\ finished[k].outcome = "failed" =>
             /\ finished[k].ended = "rollback"
             /\ \A w \in committed : w.unit # k

(***************************************************************************)
(* C20: no failure is suppressed or retried: every error a database        *)
(* statement raises reaches the caller, and no statement is executed a     *)
(* second time in response to a failure.                                   *)
(***************************************************************************)

\* C20 as claimed: every error the database raised left the test or fixture
\* that executed the statement, and the statement was not executed again
C20_NoFailureSuppressedOrRetried ==
    \A e \in errors : e.handling = "raised" /\ ~e.again

(***************************************************************************)
(* The four tables and their foreign keys, as create_tables declares them  *)
(* (seed_darwin_dev.py lines 75-141): statements insert, update and delete *)
(* rows, and the server checks and cascades the foreign keys.              *)
(***************************************************************************)

\* the rows of domains, areas and tasks together that a run may hold
MaxRows == 4

\* profiles.id values (VARCHAR(64), seed_darwin_dev.py line 75)
ProfileIds == {"p1", "p2"}
\* id values of domains and areas (INT AUTO_INCREMENT, lines 89, 104)
Ids == {"1", "2"}
\* id values of tasks (INT AUTO_INCREMENT, line 124)
TaskIds == {"1"}
\* domain_fk INT NULL (line 106), area_fk INT NULL (line 128)
NULL == "NULL"

\* the foreign keys of lines 96-98, 113-118, 134-139
DomainsCreator == "domains.creator_fk"
AreasCreator == "areas.creator_fk"
AreasDomain == "areas.domain_fk"
TasksCreator == "tasks.creator_fk"
TasksArea == "tasks.area_fk"
ForeignKeys == {DomainsCreator, AreasCreator, AreasDomain, TasksCreator, TasksArea}

\* every foreign key ON DELETE CASCADE, as create_tables declares them
Declared == [f \in ForeignKeys |-> "CASCADE"]

\* the schema instances: the declared one, and the one test_cascades.py lines
\* 143-147 names, where areas.creator_fk was created without ON DELETE CASCADE
SchemaInstances ==
    {Declared, [Declared EXCEPT ![AreasCreator] = "RESTRICT"]}

Domain(id, creator_fk) == [id |-> id, creator_fk |-> creator_fk]
Area(id, domain_fk, creator_fk) == [id |-> id, domain_fk |-> domain_fk, creator_fk |-> creator_fk]
Task(id, area_fk, creator_fk) == [id |-> id, area_fk |-> area_fk, creator_fk |-> creator_fk]

NoRows == [profiles |-> {}, domains |-> {}, areas |-> {}, tasks |-> {}]

\* the id column of a set of rows
IdsOf(set) == { r.id : r \in set }

\* the values an INSERT gives for the foreign key columns of the row: fk for
\* the parent (domain_fk, area_fk; "" where the table has none), creator_fk for
\* the profile
Given(fk, creator_fk) == [fk |-> fk, creator_fk |-> creator_fk]
NoValues == Given("", "")

\* a statement and its outcome: given, the foreign key values of an INSERT;
\* err, "" or the IntegrityError code; removed, the rows a DELETE deleted,
\* cascades included
Statement(op, table, given, err, removed) ==
    [op |-> op, table |-> table, given |-> given, err |-> err, removed |-> removed]

\* 1452: a foreign key names no row; 1451: a referenced row cannot be deleted;
\* 1062: the key exists already
NoReferencedRow == "1452"
RowIsReferenced == "1451"
DuplicateEntry == "1062"

RowsInit ==
    /\ on_delete \in SchemaInstances
    /\ rows = NoRows
    /\ last = Statement("", "", NoValues, "", NoRows)
    /\ HarnessIdle /\ MigrateIdle /\ SessionIdle /\ ScriptIdle

\* whether the table has room for one more row
HasRoom ==
    Cardinality(rows.domains) + Cardinality(rows.areas) + Cardinality(rows.tasks) < MaxRows

\* a variant of the check that takes every value for a row's key
ForeignKeyUnchecked(value, keys) == FALSE

\* a variant of the check that asks NULL to name a row as well
ForeignKeyNullChecked(value, keys) == value \notin keys

\* the check of a nullable foreign key column: NULL passes, any other value must
\* be the key of a row of the referenced table
ForeignKeyFails(value, keys) == value # NULL /\ value \notin keys

\* INSERT INTO profiles (conftest.py lines 54-59)
InsertProfile ==
    /\ \E p \in ProfileIds :
          IF p \in rows.profiles
          THEN /\ last' = Statement("insert", "profiles", NoValues, DuplicateEntry, NoRows)
               /\ UNCHANGED rows
          ELSE /\ rows' = [rows EXCEPT !.profiles = @ \cup {p}]
               /\ last' = Statement("insert", "profiles", NoValues, "", NoRows)
    /\ UNCHANGED on_delete
    /\ UNCHANGED <<harnessVars, migrateVars, sessionVars, scriptVars>>

\* INSERT INTO domains (conftest.py lines 61-64): AUTO_INCREMENT gives the row an
\* id no row of the table holds
InsertDomain ==
    /\ HasRoom
    /\ \E id \in Ids \ IdsOf(rows.domains), creator \in ProfileIds :
          IF ForeignKeyFails(creator, rows.profiles)
          THEN /\ last' = Statement("insert", "domains", Given("", creator), NoReferencedRow, NoRows)
               /\ UNCHANGED rows
          ELSE /\ rows' = [rows EXCEPT !.domains = @ \cup {Domain(id, creator)}]
               /\ last' = Statement("insert", "domains", Given("", creator), "", NoRows)
    /\ UNCHANGED on_delete
    /\ UNCHANGED <<harnessVars, migrateVars, sessionVars, scriptVars>>

\* INSERT INTO areas (conftest.py lines 69-73, test_cascades.py lines 272-287)
InsertArea ==
    /\ HasRoom
    /\ \E id \in Ids \ IdsOf(rows.areas), domain_fk \in Ids \cup {NULL},
          creator \in ProfileIds :
          IF \/ ForeignKeyFails(creator, rows.profiles)
             \/ ForeignKeyFails(domain_fk, IdsOf(rows.domains))
          THEN /\ last' = Statement("insert", "areas", Given(domain_fk, creator), NoReferencedRow, NoRows)
               /\ UNCHANGED rows
          ELSE /\ rows' = [rows EXCEPT !.areas = @ \cup {Area(id, domain_fk, creator)}]
               /\ last' = Statement("insert", "areas", Given(domain_fk, creator), "", NoRows)
    /\ UNCHANGED on_delete
    /\ UNCHANGED <<harnessVars, migrateVars, sessionVars, scriptVars>>

\* INSERT INTO tasks (test_constraints.py lines 19-23, test_cascades.py 290-305)
InsertTask ==
    /\ HasRoom
    /\ \E id \in TaskIds \ IdsOf(rows.tasks), area_fk \in Ids \cup {NULL},
          creator \in ProfileIds :
          IF \/ ForeignKeyFails(creator, rows.profiles)
             \/ ForeignKeyFails(area_fk, IdsOf(rows.areas))
          THEN /\ last' = Statement("insert", "tasks", Given(area_fk, creator), NoReferencedRow, NoRows)
               /\ UNCHANGED rows
          ELSE /\ rows' = [rows EXCEPT !.tasks = @ \cup {Task(id, area_fk, creator)}]
               /\ last' = Statement("insert", "tasks", Given(area_fk, creator), "", NoRows)
    /\ UNCHANGED on_delete
    /\ UNCHANGED <<harnessVars, migrateVars, sessionVars, scriptVars>>

Tables == {"profiles", "domains", "areas", "tasks"}
KeysOf(table) ==
    IF table = "profiles" THEN ProfileIds
    ELSE IF table = "tasks" THEN TaskIds
    ELSE Ids

\* a variant that removes the row and the rows that name it, and no further
DoomedDirectChildren(table, key, r, schema) ==
    LET p == IF table = "profiles" THEN {key} \cap r.profiles ELSE {}
        d == { x \in r.domains : \/ table = "domains" /\ x.id = key
                                 \/ x.creator_fk \in p }
        a == { x \in r.areas : \/ table = "areas" /\ x.id = key
                               \/ x.creator_fk \in p
                               \/ table = "domains" /\ x.domain_fk = key }
        t == { x \in r.tasks : \/ table = "tasks" /\ x.id = key
                               \/ x.creator_fk \in p
                               \/ table = "areas" /\ x.area_fk = key }
    IN  [profiles |-> p, domains |-> d, areas |-> a, tasks |-> t]

\* a variant that removes, with an area, the areas of the same domain
DoomedWithSiblings(table, key, r, schema) ==
    LET p == IF table = "profiles" THEN {key} \cap r.profiles ELSE {}
        d == { x \in r.domains : \/ table = "domains" /\ x.id = key
                                 \/ x.creator_fk \in p }
        a == { x \in r.areas : \/ table = "areas" /\ x.id = key
                               \/ table = "areas" /\ \E y \in r.areas :
                                     y.id = key /\ y.domain_fk = x.domain_fk
                               \/ x.creator_fk \in p
                               \/ x.domain_fk \in IdsOf(d) }
        t == { x \in r.tasks : \/ table = "tasks" /\ x.id = key
                               \/ x.creator_fk \in p
                               \/ x.area_fk \in IdsOf(a) }
    IN  [profiles |-> p, domains |-> d, areas |-> a, tasks |-> t]

\* the rows DELETE FROM table WHERE id = key removes when the server runs it:
\* the row, and through every ON DELETE CASCADE foreign key the rows that name a
\* removed row (lines 96-98, 113-118, 134-139)
Doomed(table, key, r, schema) ==
    LET p == IF table = "profiles" THEN {key} \cap r.profiles ELSE {}
        d == { x \in r.domains :
                 \/ table = "domains" /\ x.id = key
                 \/ schema[DomainsCreator] = "CASCADE" /\ x.creator_fk \in p }
        a == { x \in r.areas :
                 \/ table = "areas" /\ x.id = key
                 \/ schema[AreasCreator] = "CASCADE" /\ x.creator_fk \in p
                 \/ schema[AreasDomain] = "CASCADE" /\ x.domain_fk \in IdsOf(d) }
        t == { x \in r.tasks :
                 \/ table = "tasks" /\ x.id = key
                 \/ schema[TasksCreator] = "CASCADE" /\ x.creator_fk \in p
                 \/ schema[TasksArea] = "CASCADE" /\ x.area_fk \in IdsOf(a) }
    IN  [profiles |-> p, domains |-> d, areas |-> a, tasks |-> t]

\* the rows that name a removed row through a foreign key without ON DELETE
\* CASCADE
Holders(doomed, r, schema) ==
    [domains |-> { x \in r.domains :
                     schema[DomainsCreator] # "CASCADE" /\ x.creator_fk \in doomed.profiles },
     areas   |-> { x \in r.areas :
                     \/ schema[AreasCreator] # "CASCADE" /\ x.creator_fk \in doomed.profiles
                     \/ schema[AreasDomain] # "CASCADE" /\ x.domain_fk \in IdsOf(doomed.domains) },
     tasks   |-> { x \in r.tasks :
                     \/ schema[TasksCreator] # "CASCADE" /\ x.creator_fk \in doomed.profiles
                     \/ schema[TasksArea] # "CASCADE" /\ x.area_fk \in IdsOf(doomed.areas) }]

\* the outcomes of the DELETE: rejected when a row that stays names a removed
\* row through a foreign key without ON DELETE CASCADE; when every such row is
\* itself removed by another cascade, the order in which the server takes the
\* foreign keys decides, and both outcomes are possible
DeleteOutcomes(table, key, r, schema) ==
    LET doomed  == Doomed(table, key, r, schema)
        holders == Holders(doomed, r, schema)
    IN  IF \/ holders.domains \ doomed.domains # {}
           \/ holders.areas \ doomed.areas # {}
           \/ holders.tasks \ doomed.tasks # {}
        THEN {RowIsReferenced}
        ELSE IF holders.domains \cup holders.areas \cup holders.tasks # {}
        THEN {RowIsReferenced, ""}
        ELSE {""}

\* a variant in which a rejected DELETE keeps the cascades made before the
\* foreign key that rejected it
DeleteRowNotAtomic ==
    /\ \E table \in Tables :
       \E key \in KeysOf(table) :
       \E err \in DeleteOutcomes(table, key, rows, on_delete) :
          LET doomed == Doomed(table, key, rows, on_delete)
          IN  IF err = ""
              THEN /\ rows' = [profiles |-> rows.profiles \ doomed.profiles,
                               domains  |-> rows.domains \ doomed.domains,
                               areas    |-> rows.areas \ doomed.areas,
                               tasks    |-> rows.tasks \ doomed.tasks]
                   /\ last' = Statement("delete", table, NoValues, "", doomed)
              ELSE /\ rows' = [rows EXCEPT !.domains = @ \ doomed.domains]
                   /\ last' = Statement("delete", table, NoValues, err, NoRows)
    /\ UNCHANGED on_delete
    /\ UNCHANGED <<harnessVars, migrateVars, sessionVars, scriptVars>>

\* DELETE FROM table WHERE id = key (test_cascades.py lines 38, 78, 127, 188,
\* 254, 350, 407): the statement removes all the rows it dooms or, rejected,
\* none
DeleteRow ==
    /\ \E table \in Tables :
       \E key \in KeysOf(table) :
       \E err \in DeleteOutcomes(table, key, rows, on_delete) :
          LET doomed == Doomed(table, key, rows, on_delete)
          IN  IF err = ""
              THEN /\ rows' = [profiles |-> rows.profiles \ doomed.profiles,
                               domains  |-> rows.domains \ doomed.domains,
                               areas    |-> rows.areas \ doomed.areas,
                               tasks    |-> rows.tasks \ doomed.tasks]
                   /\ last' = Statement("delete", table, NoValues, "", doomed)
              ELSE /\ last' = Statement("delete", table, NoValues, err, NoRows)
                   /\ UNCHANGED rows
    /\ UNCHANGED on_delete
    /\ UNCHANGED <<harnessVars, migrateVars, sessionVars, scriptVars>>

\* UPDATE of one foreign key column of one row: the new value is checked as on
\* INSERT
UpdateForeignKey ==
    /\ \/ \E x \in rows.domains, creator \in ProfileIds :
             IF ForeignKeyFails(creator, rows.profiles)
             THEN /\ last' = Statement("update", "domains", NoValues, NoReferencedRow, NoRows)
                  /\ UNCHANGED rows
             ELSE /\ rows' = [rows EXCEPT !.domains =
                                (@ \ {x}) \cup {Domain(x.id, creator)}]
                  /\ last' = Statement("update", "domains", NoValues, "", NoRows)
       \/ \E x \in rows.areas, creator \in ProfileIds :
             IF ForeignKeyFails(creator, rows.profiles)
             THEN /\ last' = Statement("update", "areas", NoValues, NoReferencedRow, NoRows)
                  /\ UNCHANGED rows
             ELSE /\ rows' = [rows EXCEPT !.areas =
                                (@ \ {x}) \cup {Area(x.id, x.domain_fk, creator)}]
                  /\ last' = Statement("update", "areas", NoValues, "", NoRows)
       \/ \E x \in rows.areas, domain_fk \in Ids \cup {NULL} :
             IF ForeignKeyFails(domain_fk, IdsOf(rows.domains))
             THEN /\ last' = Statement("update", "areas", NoValues, NoReferencedRow, NoRows)
                  /\ UNCHANGED rows
             ELSE /\ rows' = [rows EXCEPT !.areas =
                                (@ \ {x}) \cup {Area(x.id, domain_fk, x.creator_fk)}]
                  /\ last' = Statement("update", "areas", NoValues, "", NoRows)
       \/ \E x \in rows.tasks, creator \in ProfileIds :
             IF ForeignKeyFails(creator, rows.profiles)
             THEN /\ last' = Statement("update", "tasks", NoValues, NoReferencedRow, NoRows)
                  /\ UNCHANGED rows
             ELSE /\ rows' = [rows EXCEPT !.tasks =
                                (@ \ {x}) \cup {Task(x.id, x.area_fk, creator)}]
                  /\ last' = Statement("update", "tasks", NoValues, "", NoRows)
       \/ \E x \in rows.tasks, area_fk \in Ids \cup {NULL} :
             IF ForeignKeyFails(area_fk, IdsOf(rows.areas))
             THEN /\ last' = Statement("update", "tasks", NoValues, NoReferencedRow, NoRows)
                  /\ UNCHANGED rows
             ELSE /\ rows' = [rows EXCEPT !.tasks =
                                (@ \ {x}) \cup {Task(x.id, area_fk, x.creator_fk)}]
                  /\ last' = Statement("update", "tasks", NoValues, "", NoRows)
    /\ UNCHANGED on_delete
    /\ UNCHANGED <<harnessVars, migrateVars, sessionVars, scriptVars>>

\* the value of a foreign key column after the key it names changed
Follow(value, old, new) == IF value = old THEN new ELSE value

\* UPDATE of the key of a referenced row: every foreign key is ON UPDATE CASCADE
\* (lines 98, 115, 118, 136, 139), so the rows that name the row follow it
UpdateKey ==
    /\ \/ \E old \in rows.profiles : \E new \in ProfileIds \ {old} :
             IF new \in rows.profiles
             THEN /\ last' = Statement("update", "profiles", NoValues, DuplicateEntry, NoRows)
                  /\ UNCHANGED rows
             ELSE /\ rows' =
                       [profiles |-> (rows.profiles \ {old}) \cup {new},
                        domains  |-> { Domain(x.id, Follow(x.creator_fk, old, new)) :
                                          x \in rows.domains },
                        areas    |-> { Area(x.id, x.domain_fk, Follow(x.creator_fk, old, new)) :
                                          x \in rows.areas },
                        tasks    |-> { Task(x.id, x.area_fk, Follow(x.creator_fk, old, new)) :
                                          x \in rows.tasks }]
                  /\ last' = Statement("update", "profiles", NoValues, "", NoRows)
       \/ \E x \in rows.domains : \E new \in Ids \ {x.id} :
             IF new \in IdsOf(rows.domains)
             THEN /\ last' = Statement("update", "domains", NoValues, DuplicateEntry, NoRows)
                  /\ UNCHANGED rows
             ELSE /\ rows' =
                       [rows EXCEPT
                          !.domains = (@ \ {x}) \cup {Domain(new, x.creator_fk)},
                          !.areas = { Area(y.id, Follow(y.domain_fk, x.id, new), y.creator_fk) :
                                         y \in rows.areas }]
                  /\ last' = Statement("update", "domains", NoValues, "", NoRows)
       \/ \E x \in rows.areas : \E new \in Ids \ {x.id} :
             IF new \in IdsOf(rows.areas)
             THEN /\ last' = Statement("update", "areas", NoValues, DuplicateEntry, NoRows)
                  /\ UNCHANGED rows
             ELSE /\ rows' =
                       [rows EXCEPT
                          !.areas = (@ \ {x}) \cup {Area(new, x.domain_fk, x.creator_fk)},
                          !.tasks = { Task(y.id, Follow(y.area_fk, x.id, new), y.creator_fk) :
                                         y \in rows.tasks }]
                  /\ last' = Statement("update", "areas", NoValues, "", NoRows)
    /\ UNCHANGED on_delete
    /\ UNCHANGED <<harnessVars, migrateVars, sessionVars, scriptVars>>

RowsNext ==
    \/ InsertProfile
    \/ InsertDomain
    \/ InsertArea
    \/ InsertTask
    \/ DeleteRow
    \/ UpdateForeignKey
    \/ UpdateKey

RowsSpec == RowsInit /\ [][RowsNext]_vars

\* ---------------------------------------------------------------------------
\* Claims about the rows of the four tables
\* ---------------------------------------------------------------------------

\* a row named by its table and key
RowKey(table, key) == [table |-> table, key |-> key]

\* the rows of the four tables, named by table and key
RowKeys(r) ==
    { RowKey("profiles", x) : x \in r.profiles }
       \cup { RowKey("domains", x.id) : x \in r.domains }
       \cup { RowKey("areas", x.id) : x \in r.areas }
       \cup { RowKey("tasks", x.id) : x \in r.tasks }

\* the pairs <<child, parent>> of rows where a foreign key column of the child
\* holds the key of the parent
References(r) ==
    { <<RowKey("domains", x.id), RowKey("profiles", x.creator_fk)>> : x \in r.domains }
       \cup { <<RowKey("areas", x.id), RowKey("profiles", x.creator_fk)>> : x \in r.areas }
       \cup { <<RowKey("areas", x.id), RowKey("domains", x.domain_fk)>> : x \in r.areas }
       \cup { <<RowKey("tasks", x.id), RowKey("profiles", x.creator_fk)>> : x \in r.tasks }
       \cup { <<RowKey("tasks", x.id), RowKey("areas", x.area_fk)>> : x \in r.tasks }

\* the rows of set, and the rows that reference one of them directly or
\* transitively
RECURSIVE ReferencingTransitively(_, _)
ReferencingTransitively(r, set) ==
    LET more == set \cup { e[1] : e \in { e \in References(r) : e[2] \in set } }
    IN  IF more = set THEN set ELSE ReferencingTransitively(r, more)

\* the rows a step removed
Gone == RowKeys(rows) \ RowKeys(rows')

\* the row of the statement's own table that a step removed: the target of a
\* DELETE that was executed
Target == { x \in Gone : x.table = last'.table }

\* C15: deleting a Profile removes every Domain, Area and Task that references
\* it directly or transitively; deleting a Domain removes every Area whose
\* domain_fk is that Domain and every Task under those Areas; deleting an Area
\* removes every Task whose area_fk is that Area. With every foreign key ON
\* DELETE CASCADE, as create_tables declares them, no DELETE is rejected; and in
\* every schema instance a DELETE that is executed leaves no row that referenced
\* its target, directly or transitively.
C15_DeleteCascades ==
    [][ last'.op = "delete" =>
           /\ on_delete = Declared => last'.err = ""
           /\ last'.err = "" =>
                 ReferencingTransitively(rows, Target) \cap RowKeys(rows') = {}
      ]_vars

\* a DELETE of a profile was executed and took with it a task of another
\* creator, reached through the profile's domain and area only
C15_Witness ==
    /\ last.op = "delete" /\ last.table = "profiles" /\ last.err = ""
    /\ \E d \in last.removed.domains, a \in last.removed.areas, t \in last.removed.tasks :
          /\ d.creator_fk \in last.removed.profiles
          /\ a.domain_fk = d.id
          /\ t.area_fk = a.id
          /\ t.creator_fk \notin last.removed.profiles

\* the chains in r of a profile, a domain of it, an area under the domain and a
\* task under the area
Chains(r) ==
    { c \in [P : r.profiles, D : r.domains, A : r.areas, T : r.tasks] :
         /\ c.D.creator_fk = c.P
         /\ c.A.domain_fk = c.D.id
         /\ c.T.area_fk = c.A.id }

\* C16: for every profile P with domain D, area A under D and task T under A, a
\* delete of P has exactly one of two outcomes: P, D, A and T are all removed,
\* or (when a required cascade constraint is absent in the schema instance) the
\* delete is rejected with a foreign-key error and P, D, A and T all remain;
\* some but not all of them removed never happens.
C16_AllOrNothing ==
    [][ last'.op = "delete" /\ last'.table = "profiles" =>
           \/ /\ last'.err = ""
              /\ \A c \in Chains(rows) :
                    c.P \notin rows'.profiles =>
                       /\ c.D.id \notin IdsOf(rows'.domains)
                       /\ c.A.id \notin IdsOf(rows'.areas)
                       /\ c.T.id \notin IdsOf(rows'.tasks)
           \/ /\ last'.err = RowIsReferenced
              /\ on_delete # Declared
              /\ rows' = rows
      ]_vars

\* a DELETE of a profile was rejected, and a chain of profile, domain, area and
\* task is in the tables
C16_Witness ==
    /\ last.op = "delete" /\ last.table = "profiles" /\ last.err = RowIsReferenced
    /\ Chains(rows) # {}

\* C17: deleting one row never removes its siblings: deleting an Area leaves
\* every other Area of the same Domain and the Tasks under those other Areas in
\* place, and deleting a Domain removes only Areas whose domain_fk equals that
\* Domain. A DELETE removes at most one row of its own table, and beside it
\* only rows that referenced it directly or transitively.
C17_SiblingsStay ==
    [][ last'.op = "delete" =>
           /\ Cardinality(Target) <= 1
           /\ Gone \subseteq ReferencingTransitively(rows, Target)
      ]_vars

\* a DELETE of an area was executed; another area of the same domain and a
\* task under that other area are in the tables
C17_Witness ==
    /\ last.op = "delete" /\ last.table = "areas" /\ last.err = ""
    /\ \E a \in last.removed.areas, b \in rows.areas, t \in rows.tasks :
          /\ a.domain_fk # NULL
          /\ b.domain_fk = a.domain_fk
          /\ t.area_fk = b.id

\* C18: in every state reachable by inserts, updates and deletes on the four
\* tables, the creator_fk of every Domain, Area and Task is the id of a Profile,
\* every non-null Area.domain_fk is the id of a Domain, and every non-null
\* Task.area_fk is the id of an Area (no orphan rows).
C18_NoOrphans ==
    /\ \A x \in rows.domains : x.creator_fk \in rows.profiles
    /\ \A x \in rows.areas :
          /\ x.creator_fk \in rows.profiles
          /\ x.domain_fk # NULL => x.domain_fk \in IdsOf(rows.domains)
    /\ \A x \in rows.tasks :
          /\ x.creator_fk \in rows.profiles
          /\ x.area_fk # NULL => x.area_fk \in IdsOf(rows.areas)

\* a key was changed and the rows that referenced it are in the tables: a task
\* under an area under a domain, after an UPDATE that was executed
C18_Witness ==
    /\ last.op = "update" /\ last.err = ""
    /\ \E d \in rows.domains, a \in rows.areas, t \in rows.tasks :
          a.domain_fk = d.id /\ t.area_fk = a.id

\* whether a statement's given parent value names no row of the parent table
Dangling(value, keys) == value # NULL /\ value \notin keys

\* C19: inserting a Task whose area_fk names a non-existent Area (or an Area
\* whose domain_fk names a non-existent Domain, or a Domain whose creator_fk
\* names a non-existent Profile) is rejected with a foreign-key violation and
\* adds no row, whereas the same Task insert with area_fk NULL (or Area insert
\* with domain_fk NULL) succeeds and the stored value reads back as NULL.
C19_InsertForeignKey ==
    [][ last'.op = "insert" /\ last'.table # "profiles" =>
           LET given   == last'.given
               parents == IF last'.table = "tasks" THEN IdsOf(rows.areas)
                          ELSE IF last'.table = "areas" THEN IdsOf(rows.domains)
                          ELSE {}
               added   == rows'[last'.table] \ rows[last'.table]
               stored(x) == IF last'.table = "tasks" THEN x.area_fk ELSE x.domain_fk
               dangling == \/ last'.table # "domains" /\ Dangling(given.fk, parents)
                           \/ given.creator_fk \notin rows.profiles
               unassigned == /\ last'.table # "domains"
                             /\ given.fk = NULL
                             /\ given.creator_fk \in rows.profiles
           IN  /\ dangling => (last'.err = NoReferencedRow /\ rows' = rows)
               /\ unassigned => /\ last'.err = ""
                                /\ Cardinality(added) = 1
                                /\ \A x \in added : stored(x) = NULL
      ]_vars

\* an INSERT of a task of an existing profile was rejected for its area_fk,
\* which names no area
C19_Witness ==
    /\ last.op = "insert" /\ last.table = "tasks" /\ last.err = NoReferencedRow
    /\ last.given.creator_fk \in rows.profiles
    /\ Dangling(last.given.fk, IdsOf(rows.areas))

(***************************************************************************)
(* scripts/: cleanup_darwin2.py, cleanup_darwin_dev.py and                 *)
(* seed_darwin_dev.py, and the db_connection fixture of tests/conftest.py. *)
(* A run checks its environment, connects, talks to the server statement   *)
(* by statement and closes the connection; any call on the connection may  *)
(* raise.                                                                  *)
(***************************************************************************)

\* the runs of the seed script in a row
MaxRuns == 2

CleanupDarwin2 == "cleanup_darwin2.py"
CleanupDarwinDev == "cleanup_darwin_dev.py"
SeedDarwinDev == "seed_darwin_dev.py"
PytestSession == "pytest tests/"
Cleanups == {CleanupDarwin2, CleanupDarwinDev}
Scripts == Cleanups \cup {SeedDarwinDev}

\* TARGET_DATABASE (cleanup_darwin2.py line 41, cleanup_darwin_dev.py line 40,
\* seed_darwin_dev.py line 27); conftest.py line 26 for the fixture
TARGET_DATABASE(program) ==
    IF program = CleanupDarwin2 THEN QueriedDatabase ELSE CurrentDatabase

\* the name of a table of the four in the script's database: with the suffix
\* "2" in darwin2
TableName(program, table) ==
    IF program = CleanupDarwin2 THEN table \o <<"2">> ELSE table

\* VALID_TABLES (cleanup_darwin2.py line 46, cleanup_darwin_dev.py line 45)
VALID_TABLES(program) ==
    { TableName(program, t) : t \in {profiles, domains, areas, tasks} }

\* CLEANUP_PATTERNS (lines 50-55): the patterns, in order
CLEANUP_PATTERNS ==
    << <<"c","o","g","n","i","t","o","-","t","e","s","t","-","%">>,
       <<"p","y","t","e","s","t","-","%">> >>

\* a variant whose loop leaves out the password
RequiredVarsWithoutPassword == <<"endpoint", "username">>

\* the loop of main over the required variables (cleanup lines 206-210, seed
\* lines 180-184)
RequiredVars == <<"endpoint", "username", "db_password">>

\* value LIKE pattern: % stands for any characters, _ for one, letters compare
\* without case
RECURSIVE LikeMatches(_, _)
LikeMatches(value, pattern) ==
    IF pattern = <<>> THEN value = <<>>
    ELSE IF Head(pattern) = "%"
    THEN \E k \in 0..Len(value) :
            LikeMatches(SubSeq(value, k + 1, Len(value)), Tail(pattern))
    ELSE /\ value # <<>>
         /\ Head(pattern) = "_" \/ LowerChar(Head(value)) = LowerChar(Head(pattern))
         /\ LikeMatches(Tail(value), Tail(pattern))

\* the field of rows that holds a table's rows
FieldOf(table) ==
    IF table = profiles THEN "profiles"
    ELSE IF table = domains THEN "domains"
    ELSE IF table = areas THEN "areas"
    ELSE "tasks"

\* the rows of a table that WHERE column LIKE pattern selects: column is id for
\* profiles, creator_fk for the others (cleanup_darwin2.py line 169)
Selected(table, pattern, r) ==
    IF table = profiles
    THEN { x \in r.profiles : LikeMatches(x, pattern) }
    ELSE { x \in r[FieldOf(table)] : LikeMatches(x.creator_fk, pattern) }

\* a variant whose DELETE removes the selected rows and no row that references
\* them
AfterDeleteSelectedOnly(table, pattern, r) ==
    [r EXCEPT ![FieldOf(table)] = @ \ Selected(table, pattern, r)]

\* the rows after DELETE FROM table WHERE column LIKE pattern: each selected
\* row goes, and with it the rows its foreign keys cascade to
AfterDelete(table, pattern, r) ==
    LET gone == { Doomed(FieldOf(table), IF table = profiles THEN x ELSE x.id, r, Declared) :
                     x \in Selected(table, pattern, r) }
    IN  [profiles |-> r.profiles \ UNION { g.profiles : g \in gone },
         domains  |-> r.domains \ UNION { g.domains : g \in gone },
         areas    |-> r.areas \ UNION { g.areas : g \in gone },
         tasks    |-> r.tasks \ UNION { g.tasks : g \in gone }]

\* profile ids: one of a user, and one for each pattern as the test suites
\* make them (cleanup_darwin2.py lines 51-54)
UserProfile == <<"u","s","e","r","-","1">>
PytestProfile == <<"p","y","t","e","s","t","-","1">>
CognitoProfile == <<"c","o","g","n","i","t","o","-","t","e","s","t","-","1">>

\* E2E_TEST_SUB (seed_darwin_dev.py line 30), its first eight characters
E2E_TEST_SUB == <<"4","2","1","4","5","f","1","d">>

\* the database states a cleanup run starts from: the user's profile and any
\* of the test profiles, at most one domain, one area and one task, every
\* foreign key naming a row or NULL
DbStates ==
    LET ProfileSets == { s \in SUBSET {UserProfile, PytestProfile, CognitoProfile} :
                            UserProfile \in s }
        DomainSets(p) == {{}} \cup { {Domain("1", c)} : c \in p }
        AreaSets(p, d) ==
            {{}} \cup { {Area("1", f, c)} : f \in {NULL} \cup IdsOf(d), c \in p }
        TaskSets(p, a) ==
            {{}} \cup { {Task("1", f, c)} : f \in {NULL} \cup IdsOf(a), c \in p }
    IN  UNION { UNION { UNION {
           { [profiles |-> p, domains |-> d, areas |-> a, tasks |-> t] :
                t \in TaskSets(p, a) } :
           a \in AreaSets(p, d) } : d \in DomainSets(p) } : p \in ProfileSets }

\* a call on the connection: cur.execute of a statement, or conn.commit()
Call(op, table, column, pattern) ==
    [op |-> op, table |-> table, column |-> column, pattern |-> pattern]
SelectDatabase == Call("SELECT DATABASE()", <<>>, "", <<>>)
Commit == Call("commit", <<>>, "", <<>>)

\* what the server holds that a later run can see: the databases, the tables
\* of the target database, the committed rows and the grants
Persisted(s) ==
    [databases |-> s.databases, tables |-> s.tables, rows |-> s.persisted,
     grants |-> s.grants]

\* a run before its first step: connects counts the calls of pymysql.connect,
\* exit_code is -1 while the process runs. The fixture has no check of the
\* environment before it connects
NewRun(program, environ, execute, n, exits, before) ==
    [program |-> program, environ |-> environ, execute |-> execute, n |-> n,
     pc |-> IF program = PytestSession THEN "connect" ELSE "start",
     conn |-> "none", connects |-> 0, issued |-> <<>>, reported |-> <<>>,
     exit_code |-> -1, status |-> 0, raised |-> FALSE,
     orphans |-> <<>>, pi |-> 1, ti |-> 1, total_deleted |-> 0,
     exits |-> exits, before |-> before]

ScriptInit ==
    /\ \E program \in Scripts \cup {PytestSession},
          environ \in SUBSET {RequiredVars[k] : k \in 1..Len(RequiredVars)},
          execute \in BOOLEAN, mismatch \in BOOLEAN, r \in DbStates :
          /\ program \notin Cleanups =>
                (~execute /\ r = [NoRows EXCEPT !.profiles = {UserProfile}])
          /\ program = PytestSession => ~mismatch
          /\ run = NewRun(program, environ, execute, 1, <<>>, r)
          /\ server = [reports   |-> IF mismatch THEN "mysql"
                                     ELSE TARGET_DATABASE(program),
                       databases |-> IF program = SeedDarwinDev THEN {}
                                     ELSE {TARGET_DATABASE(program)},
                       tables    |-> IF program = SeedDarwinDev THEN {}
                                     ELSE VALID_TABLES(program),
                       rows      |-> IF program \in Cleanups THEN r ELSE NoRows,
                       persisted |-> IF program \in Cleanups THEN r ELSE NoRows,
                       grants    |-> {}]
    /\ HarnessIdle /\ MigrateIdle /\ SessionIdle /\ RowsIdle

\* the process ends with the exit code, leaving the server in state s
Exit(r, code, s) ==
    [r EXCEPT !.pc = "exited", !.exit_code = code,
              !.exits = Append(@, [code |-> code, state |-> Persisted(s)])]

\* a variant in which the process ends with 0 whatever left the try block
LeaveWithZero(r, status, exception) ==
    [r EXCEPT !.pc = "finally", !.status = 0, !.raised = exception]

\* an exception or sys.exit leaves the try block of main: the finally clause is
\* next, status the exit code the process will end with
Leave(r, status, exception) ==
    [r EXCEPT !.pc = "finally", !.status = status, !.raised = exception]

\* a message the run printed
Message(kind, what) == [kind |-> kind, what |-> what]

\* the run with one more call on the connection
Issue(r, call) == [r EXCEPT !.issued = Append(@, call)]

\* main, cleanup lines 205-210 and seed lines 180-184: the first required
\* variable that is not set is reported and the process exits with 1
CheckEnvironment ==
    /\ run.pc = "start"
    /\ LET missing == { k \in 1..Len(RequiredVars) : RequiredVars[k] \notin run.environ }
       IN  IF missing # {}
           THEN run' = Exit([run EXCEPT !.reported =
                                Append(@, Message("Error", RequiredVars[Min(missing)]))],
                            1, server)
           ELSE run' = [run EXCEPT !.pc = "connect"]
    /\ UNCHANGED server
    /\ UNCHANGED <<harnessVars, migrateVars, sessionVars, rowVars>>

\* pymysql.connect (cleanup line 212, seed line 186, conftest.py lines 22-29):
\* the connection opens or the call raises, which ends the process, there
\* being no handler. The fixture reads os.environ for the call's arguments, a
\* KeyError before the call when a variable is not set
Connects ==
    /\ run.pc = "connect"
    /\ \E ok \in BOOLEAN :
          IF \E k \in 1..Len(RequiredVars) : RequiredVars[k] \notin run.environ
          THEN run' = Exit([run EXCEPT !.raised = TRUE], 1, server)
          ELSE IF ok
          THEN run' = [run EXCEPT !.conn = "open", !.connects = @ + 1,
                                  !.pc = IF run.program \in Cleanups THEN "verify"
                                         ELSE IF run.program = SeedDarwinDev THEN "seed"
                                         ELSE "tests"]
          ELSE run' = Exit([run EXCEPT !.connects = @ + 1, !.raised = TRUE], 1, server)
    /\ UNCHANGED server
    /\ UNCHANGED <<harnessVars, migrateVars, sessionVars, rowVars>>

\* verify_database (cleanup_darwin2.py lines 70-79): the identity query, then
\* ABORT and sys.exit(1) when the answer is not TARGET_DATABASE
VerifiesDatabase ==
    /\ run.pc = "verify"
    /\ \E ok \in BOOLEAN :
          LET r == Issue(run, SelectDatabase)
          IN  IF ~ok THEN run' = Leave(r, 1, TRUE)
              ELSE IF server.reports # TARGET_DATABASE(run.program)
              THEN run' = Leave([r EXCEPT !.reported =
                                    Append(@, Message("ABORT", server.reports))],
                                1, FALSE)
              ELSE run' = [r EXCEPT !.pc = "find"]
    /\ UNCHANGED server
    /\ UNCHANGED <<harnessVars, migrateVars, sessionVars, rowVars>>

\* a variant that goes from the root to the leaves
ParentFirstOrder == <<profiles, domains, areas, tasks>>

\* line 159: the order of the tables, leaves first
FkSafeOrder == <<tasks, areas, domains, profiles>>

\* line 169: the column the patterns are matched on
ColumnOf(table) == IF table = profiles THEN "id" ELSE "creator_fk"

\* find_orphaned_data (lines 82-133): one SELECT COUNT(*) for a pattern and a
\* table; a count above 0 puts the table among the pattern's orphans. After
\* the last, delete_orphaned_data returns 0 when nothing was found (lines
\* 143-145)
CountsOrphans ==
    /\ run.pc = "find"
    /\ \E ok \in BOOLEAN :
          LET pattern == CLEANUP_PATTERNS[run.pi]
              table   == FkSafeOrder[run.ti]
              r       == Issue(run, Call("SELECT COUNT(*)", TableName(run.program, table),
                                         ColumnOf(table), pattern))
              found   == IF Selected(table, pattern, server.rows) # {}
                         THEN Append(run.orphans, <<run.pi, run.ti>>)
                         ELSE run.orphans
          IN  IF ~ok THEN run' = Leave(r, 1, TRUE)
              ELSE IF run.ti < Len(FkSafeOrder)
              THEN run' = [r EXCEPT !.orphans = found, !.ti = @ + 1]
              ELSE IF run.pi < Len(CLEANUP_PATTERNS)
              THEN run' = [r EXCEPT !.orphans = found, !.pi = @ + 1, !.ti = 1]
              ELSE IF found = <<>>
              THEN run' = Leave([r EXCEPT !.reported =
                                    Append(@, Message("No orphaned test data found", ""))],
                                0, FALSE)
              ELSE run' = [r EXCEPT !.orphans = found, !.pc = "delete", !.pi = 1]
    /\ UNCHANGED server
    /\ UNCHANGED <<harnessVars, migrateVars, sessionVars, rowVars>>

\* a variant in which no run is a dry run
dry_run_never(r) == FALSE

\* main, line 218: dry_run=not args.execute
dry_run(r) == ~r.execute

\* delete_orphaned_data, lines 154-180, for the next table that has orphans: in
\* a dry run the line WOULD DELETE, otherwise the DELETE, whose row count adds
\* to total_deleted
DeletesOrphans ==
    /\ run.pc = "delete"
    /\ run.pi <= Len(run.orphans)
    /\ \E ok \in BOOLEAN :
          LET pattern == CLEANUP_PATTERNS[run.orphans[run.pi][1]]
              table   == FkSafeOrder[run.orphans[run.pi][2]]
              name    == TableName(run.program, table)
              r       == Issue(run, Call("DELETE", name, ColumnOf(table), pattern))
          IN  IF name \notin VALID_TABLES(run.program)
              THEN /\ run' = [run EXCEPT !.pi = @ + 1,
                                 !.reported = Append(@, Message("SKIP", ""))]
                   /\ UNCHANGED server
              ELSE IF dry_run(run)
              THEN /\ run' = [run EXCEPT !.pi = @ + 1,
                                 !.reported = Append(@, Message("WOULD DELETE", ""))]
                   /\ UNCHANGED server
              ELSE IF ~ok
              THEN /\ run' = Leave(r, 1, TRUE)
                   /\ UNCHANGED server
              ELSE /\ run' = [r EXCEPT !.pi = @ + 1,
                                 !.total_deleted =
                                    @ + Cardinality(Selected(table, pattern, server.rows))]
                   /\ server' = [server EXCEPT !.rows = AfterDelete(table, pattern, @)]
    /\ UNCHANGED <<harnessVars, migrateVars, sessionVars, rowVars>>

\* lines 184-190, after the loops: conn.commit() unless the run is a dry run;
\* the function returns total_deleted and main goes on to the finally clause
CommitsOrReports ==
    /\ run.pc = "delete"
    /\ run.pi > Len(run.orphans)
    /\ \E ok \in BOOLEAN :
          IF dry_run(run)
          THEN /\ run' = Leave([run EXCEPT !.reported =
                                   Append(@, Message("Run with --execute", ""))],
                               0, FALSE)
               /\ UNCHANGED server
          ELSE IF ~ok
          THEN /\ run' = Leave(Issue(run, Commit), 1, TRUE)
               /\ UNCHANGED server
          ELSE /\ run' = Leave(Issue(run, Commit), 0, FALSE)
               /\ server' = [server EXCEPT !.persisted = server.rows]
    /\ UNCHANGED <<harnessVars, migrateVars, sessionVars, rowVars>>

\* a variant whose identity query comes after the tables are created
SeedCallsCheckedLate ==
    << Call("CREATE DATABASE IF NOT EXISTS", <<>>, "", <<>>),
       Call("USE", <<>>, "", <<>>),
       Call("CREATE TABLE IF NOT EXISTS", profiles, "", <<>>),
       Call("CREATE TABLE IF NOT EXISTS", domains, "", <<>>),
       Call("CREATE TABLE IF NOT EXISTS", areas, "", <<>>),
       Call("CREATE TABLE IF NOT EXISTS", tasks, "", <<>>),
       SelectDatabase,
       Call("GRANT SELECT", <<>>, "", <<>>),
       Call("FLUSH PRIVILEGES", <<>>, "", <<>>),
       Call("USE", <<>>, "", <<>>),
       Call("INSERT IGNORE", profiles, "", <<>>),
       Call("INSERT IGNORE", domains, "", <<>>) >>

\* the calls of the seed script, in order: create_database (line 56),
\* create_tables (lines 63, 66, 73-141), grant_claude_ro (lines 149-150),
\* seed_e2e_user (lines 157-174)
SeedCalls ==
    << Call("CREATE DATABASE IF NOT EXISTS", <<>>, "", <<>>),
       Call("USE", <<>>, "", <<>>),
       SelectDatabase,
       Call("CREATE TABLE IF NOT EXISTS", profiles, "", <<>>),
       Call("CREATE TABLE IF NOT EXISTS", domains, "", <<>>),
       Call("CREATE TABLE IF NOT EXISTS", areas, "", <<>>),
       Call("CREATE TABLE IF NOT EXISTS", tasks, "", <<>>),
       Call("GRANT SELECT", <<>>, "", <<>>),
       Call("FLUSH PRIVILEGES", <<>>, "", <<>>),
       Call("USE", <<>>, "", <<>>),
       Call("INSERT IGNORE", profiles, "", <<>>),
       Call("INSERT IGNORE", domains, "", <<>>) >>

\* the server after it ran a call of the seed script. IF NOT EXISTS leaves what
\* exists; INSERT IGNORE leaves out a row whose key exists: the id for
\* profiles, while a row of domains gets a new AUTO_INCREMENT id each time and
\* the table has no other key (lines 88-100). The connection is autocommit
\* (line 49)
AfterSeedCall(call, s) ==
    LET after ==
           IF call.op = "CREATE DATABASE IF NOT EXISTS"
           THEN [s EXCEPT !.databases = @ \cup {CurrentDatabase}]
           ELSE IF call.op = "CREATE TABLE IF NOT EXISTS"
           THEN [s EXCEPT !.tables = @ \cup {call.table}]
           ELSE IF call.op = "GRANT SELECT"
           THEN [s EXCEPT !.grants = @ \cup {"claude_ro"}]
           ELSE IF call.op = "INSERT IGNORE" /\ call.table = profiles
           THEN [s EXCEPT !.rows.profiles = @ \cup {E2E_TEST_SUB}]
           ELSE IF call.op = "INSERT IGNORE" /\ call.table = domains
           THEN [s EXCEPT !.rows.domains = @ \cup
                    {Domain(ToString(Cardinality(@) + 1), E2E_TEST_SUB)}]
           ELSE s
    IN  [after EXCEPT !.persisted = after.rows]

\* main of the seed script, lines 188-192, call by call; after the identity
\* query create_tables compares the answer (lines 67-70)
SeedExecutes ==
    /\ run.pc = "seed"
    /\ \E ok \in BOOLEAN :
          LET call == SeedCalls[run.pi]
              r    == Issue(run, call)
          IN  IF ~ok
              THEN /\ run' = Leave(r, 1, TRUE)
                   /\ UNCHANGED server
              ELSE /\ server' = AfterSeedCall(call, server)
                   /\ run' = IF call = SelectDatabase /\ server.reports # CurrentDatabase
                             THEN Leave([r EXCEPT !.reported =
                                            Append(@, Message("ABORT", server.reports))],
                                        1, FALSE)
                             ELSE IF run.pi = Len(SeedCalls) THEN Leave(r, 0, FALSE)
                             ELSE [r EXCEPT !.pi = @ + 1]
    /\ UNCHANGED <<harnessVars, migrateVars, sessionVars, rowVars>>

\* a test of the session runs on the fixture's connection and passes or fails;
\* after the last, pytest ends the session with 1 when a test failed
TestRuns ==
    /\ run.pc = "tests"
    /\ \E failed \in BOOLEAN, last_test \in BOOLEAN :
          run' = [run EXCEPT !.pi = @ + 1,
                             !.status = IF failed THEN 1 ELSE @,
                             !.pc = IF last_test \/ run.pi = MaxUnits
                                    THEN "finally" ELSE "tests"]
    /\ UNCHANGED server
    /\ UNCHANGED <<harnessVars, migrateVars, sessionVars, rowVars>>

\* a variant whose close is skipped when the run is leaving with an exception
ClosesUnlessRaised ==
    /\ run.pc = "finally"
    /\ server' = [server EXCEPT !.rows = server.persisted]
    /\ run' = Exit([run EXCEPT !.conn = IF run.raised THEN @ ELSE "closed"],
                   run.status, server')
    /\ UNCHANGED <<harnessVars, migrateVars, sessionVars, rowVars>>

\* a variant whose close keeps what the connection wrote and did not commit
ClosesKeepingWrites ==
    /\ run.pc = "finally"
    /\ server' = [server EXCEPT !.persisted = server.rows]
    /\ run' = Exit([run EXCEPT !.conn = "closed"], run.status, server')
    /\ UNCHANGED <<harnessVars, migrateVars, sessionVars, rowVars>>

\* the finally clause of main (cleanup lines 219-220, seed lines 193-194) and
\* the fixture's teardown (conftest.py line 31): conn.close(). What the
\* connection did not commit is gone; then the process ends
Closes ==
    /\ run.pc = "finally"
    /\ server' = [server EXCEPT !.rows = server.persisted]
    /\ run' = Exit([run EXCEPT !.conn = "closed"], run.status, server')
    /\ UNCHANGED <<harnessVars, migrateVars, sessionVars, rowVars>>

\* the seed script is run once more on the server as the last run left it
RunsAgain ==
    /\ run.pc = "exited"
    /\ run.program = SeedDarwinDev
    /\ run.n < MaxRuns
    /\ run' = NewRun(run.program, run.environ, FALSE, run.n + 1, run.exits,
                     server.persisted)
    /\ UNCHANGED server
    /\ UNCHANGED <<harnessVars, migrateVars, sessionVars, rowVars>>

ScriptNext ==
    \/ CheckEnvironment
    \/ Connects
    \/ VerifiesDatabase
    \/ CountsOrphans
    \/ DeletesOrphans
    \/ CommitsOrReports
    \/ SeedExecutes
    \/ TestRuns
    \/ Closes
    \/ RunsAgain

ScriptSpec == ScriptInit /\ [][ScriptNext]_vars

\* ---------------------------------------------------------------------------
\* Claims about the scripts and the connection
\* ---------------------------------------------------------------------------

\* C21: the database connection is acquired once and is released on every exit
\* path: in each script conn.close() is reached after a normal run, after a
\* safety-check abort (sys.exit) and after any exception raised once the
\* connection is open; in the test session the connection is closed at session
\* end whether or not tests failed. No run connects twice, and no process ends
\* with its connection open.
C21_ConnectionReleased ==
    /\ run.connects <= 1
    /\ run.conn # "none" => run.connects = 1
    /\ run.pc = "exited" => run.conn # "open"

\* a cleanup run ended after a statement raised on the open connection, the
\* connection closed
C21_Witness ==
    /\ run.program \in Cleanups
    /\ run.pc = "exited" /\ run.raised /\ run.issued # <<>>
    /\ run.conn = "closed"

\* whether the run issued a call of the kind
Issued(op) == \E k \in 1..Len(run.issued) : run.issued[k].op = op

\* C22: a cleanup script run without --execute is a dry run: it issues no
\* DELETE statement and no commit, returns 0 rows deleted, and leaves every row
\* of all four tables unchanged; DELETE statements are issued only when
\* --execute is given.
C22_DryRunChangesNothing ==
    run.program \in Cleanups /\ ~run.execute =>
       /\ ~Issued("DELETE") /\ ~Issued("commit")
       /\ run.total_deleted = 0
       /\ server.rows = run.before
       /\ server.persisted = run.before

\* a run without --execute found orphans, printed what it would delete and
\* ended
C22_Witness ==
    /\ run.program \in Cleanups /\ ~run.execute
    /\ run.pc = "exited" /\ run.exit_code = 0
    /\ \E k \in 1..Len(run.reported) : run.reported[k].kind = "WOULD DELETE"

\* whether the run printed a message of the kind
Reported(kind) == \E k \in 1..Len(run.reported) : run.reported[k].kind = kind

\* the identity query was answered, and the answer is not the script's target
Mismatch ==
    /\ run.program \in Scripts
    /\ Issued("SELECT DATABASE()") /\ ~run.raised
    /\ server.reports # TARGET_DATABASE(run.program)

\* C23 as stated: when the database the connection reports differs from the
\* script's target, the script reports the mismatch and terminates at once
\* with exit code 1, and the identity query is the only statement it has
\* executed, in both cleanup scripts and in the seed script.
C23_OnlyIdentityQueryBeforeAbort ==
    Mismatch =>
       /\ Reported("ABORT")
       /\ run.pc \in {"finally", "exited"} /\ run.status = 1
       /\ run.pc = "exited" => run.exit_code = 1
       /\ run.issued = <<SelectDatabase>>

\* C23, amended: when the database the connection reports differs from the
\* script's target, the script reports the mismatch and terminates at once
\* with exit code 1. A cleanup script has then executed no statement other
\* than the identity query; the seed script has executed CREATE DATABASE IF NOT
\* EXISTS and USE before the identity query and nothing else: no DELETE, no
\* CREATE TABLE, no INSERT, no GRANT and no commit, and no table or row of the
\* server has changed.
C23_AbortBeforeChanges ==
    Mismatch =>
       /\ Reported("ABORT")
       /\ run.pc \in {"finally", "exited"} /\ run.status = 1
       /\ run.pc = "exited" => run.exit_code = 1
       /\ run.program \in Cleanups => run.issued = <<SelectDatabase>>
       /\ run.program = SeedDarwinDev =>
             run.issued = << Call("CREATE DATABASE IF NOT EXISTS", <<>>, "", <<>>),
                             Call("USE", <<>>, "", <<>>), SelectDatabase >>
       /\ server.tables = (IF run.program = SeedDarwinDev THEN {}
                           ELSE VALID_TABLES(run.program))
       /\ server.rows = (IF run.program = SeedDarwinDev THEN NoRows ELSE run.before)
       /\ server.persisted = server.rows
       /\ server.grants = {}

\* the seed script ended with 1 after it reported the mismatch
C23_Witness ==
    /\ run.program = SeedDarwinDev
    /\ Mismatch /\ Reported("ABORT")
    /\ run.pc = "exited" /\ run.exit_code = 1

\* the required values that the environment of the run does not hold, in the
\* order of the claim
MissingValues ==
    SelectSeq(<<"endpoint", "username", "db_password">>,
              LAMBDA v : v \notin run.environ)

Depth(name) ==
    IF name = TableName(run.program, profiles) THEN 0
    ELSE IF name = TableName(run.program, domains) THEN 1
    ELSE IF name = TableName(run.program, areas) THEN 2
    ELSE 3

\* the positions of the DELETE statements among the calls of the run
Deletes == { k \in 1..Len(run.issued) : run.issued[k].op = "DELETE" }

\* C26: in execute mode the only statements a cleanup script issues that
\* change data are DELETE FROM table WHERE column LIKE pattern, on tables in
\* VALID_TABLES, with column id for profiles and creator_fk for the others and
\* the pattern one of CLEANUP_PATTERNS (beside them it issues the identity
\* query, the COUNT queries and the commit). For each pattern the DELETEs go
\* child first, tasks before areas before domains before profiles, and the
\* identity check, answered with the target, precedes the first DELETE.
C26_DeletesInFkSafeOrder ==
    run.program \in Cleanups /\ run.execute =>
       /\ \A k \in 1..Len(run.issued) :
             run.issued[k].op \in {"SELECT DATABASE()", "SELECT COUNT(*)", "DELETE", "commit"}
       /\ \A k \in Deletes :
             /\ run.issued[k].table \in VALID_TABLES(run.program)
             /\ run.issued[k].column =
                   (IF Depth(run.issued[k].table) = 0 THEN "id" ELSE "creator_fk")
             /\ \E i \in 1..Len(CLEANUP_PATTERNS) :
                   run.issued[k].pattern = CLEANUP_PATTERNS[i]
       /\ \A j, k \in Deletes :
             j < k /\ run.issued[j].pattern = run.issued[k].pattern =>
                Depth(run.issued[j].table) > Depth(run.issued[k].table)
       /\ Deletes # {} =>
             /\ run.issued[1] = SelectDatabase
             /\ server.reports = TARGET_DATABASE(run.program)

\* a run with --execute deleted from tasks, from areas and from profiles for
\* one pattern and committed
C26_Witness ==
    /\ run.program \in Cleanups /\ run.execute
    /\ Issued("commit")
    /\ \E i, j, k \in Deletes :
          /\ i < j /\ j < k
          /\ run.issued[i].pattern = run.issued[k].pattern
          /\ run.issued[j].pattern = run.issued[k].pattern
          /\ Depth(run.issued[i].table) = 3
          /\ Depth(run.issued[k].table) = 0

\* C27: seed_darwin_dev is idempotent: when the script is run twice in a row
\* and both runs end without error, the second run leaves the server (the
\* databases, the tables, the rows of profiles and domains, the grants) as the
\* first run left it.
C27_SeedIdempotent ==
    run.program = SeedDarwinDev =>
       \A k \in 1..(Len(run.exits) - 1) :
          run.exits[k].code = 0 /\ run.exits[k + 1].code = 0 =>
             run.exits[k + 1].state = run.exits[k].state

\* ---------------------------------------------------------------------------
\* The cleanup fixture and the migration text
\* ---------------------------------------------------------------------------

\* the text with each table name between backticks, as schema dumps write them
Delimited(text) ==
    Replace(Replace(Replace(Replace(text,
        profiles, Backtick(profiles)), domains, Backtick(domains)),
        areas, Backtick(areas)), tasks, Backtick(tasks))

\* the texts a first migration file may hold: the names bare, or delimited
MigrationTexts == {Migration001, Delimited(Migration001)}

\* two invocations of test_migration_001_creates_tables, each with its own
\* prefix, before their fixtures have run; sql_content is the text of the file
SlateInit ==
    /\ catalog = BaseTables
    /\ \E text \in MigrationTexts, p \in [Callers -> Prefixes] :
          /\ \A c, d \in Callers : c # d => p[c] # p[d]
          /\ callers = [c \in Callers |-> NewCaller(CreatesTables, p[c])]
          /\ sql_content = text
    /\ test = "" /\ table_prefix = <<>> /\ migration_files = <<>> /\ fi = 1
    /\ pc = "" /\ sql_filtered = <<>> /\ sql_prefixed = <<>>
    /\ sql = <<>> /\ statements = <<>> /\ si = 1 /\ log = <<>> /\ raised = <<>>
    /\ SessionIdle /\ RowsIdle /\ ScriptIdle

\* lines 142-143: the test reads the file and enters _apply_migration, which
\* rewrites the text with the invocation's prefix and splits it (lines 47-83)
CallerReadsFile(c) ==
    LET me == callers[c]
    IN  /\ me.pc = "read"
        /\ me.fi <= Len(Plan(me.test))
        /\ callers' = [callers EXCEPT ![c] =
              [me EXCEPT !.pc = "loop", !.si = 1,
                         !.statements = Split(StripComments(ReplaceTableNames(
                              StripSuffixedLines(sql_content), me.prefix)), ";")]]
        /\ UNCHANGED <<catalog, harnessVars, sessionVars, rowVars, scriptVars>>

SlateNext ==
    \/ \E c \in Callers : CallerDrops(c)
    \/ \E c \in Callers : CallerCleanupCommits(c)
    \/ \E c \in Callers : CallerReadsFile(c)
    \/ \E c \in Callers : CallerSkips(c)
    \/ \E c \in Callers : CallerExecutes(c)
    \/ \E c \in Callers : CallerCommits(c)
    \/ \E c \in Callers : CallerVerifies(c)

SlateSpec == SlateInit /\ [][SlateNext]_vars

\* C28: the cleanup fixture gives each migration test a clean slate: when the
\* test body starts, and again after the fixture's teardown, no table that
\* matches the test's prefix exists on the server, whatever migration text the
\* test applied.
C28_CleanSlate ==
    \A c \in Callers :
       callers[c].pc \in {"read", "done"} =>
          TablesMatching(catalog, callers[c].prefix) = {}

\* the positions of the commits among the calls of the run
Commits == { k \in 1..Len(run.issued) : run.issued[k] = Commit }

\* whether the rows the run started with hold a row that a cleanup pattern
\* selects
OrphansBefore ==
    \E i \in 1..Len(CLEANUP_PATTERNS), t \in {profiles, domains, areas, tasks} :
       Selected(t, CLEANUP_PATTERNS[i], run.before) # {}

\* a COUNT or a DELETE of the run raised
StatementRaised ==
    /\ run.raised /\ run.issued # <<>>
    /\ run.issued[Len(run.issued)].op \in {"SELECT COUNT(*)", "DELETE"}

\* C29 as stated: a cleanup run in execute mode is all-or-nothing: a run that
\* ends without error has issued commit exactly once, after its DELETEs; if a
\* COUNT or DELETE raises, no commit is issued before the connection is closed
\* and none of the run's deletions is persisted.
C29_CommitExactlyOnce ==
    run.program \in Cleanups /\ run.execute /\ run.pc = "exited" =>
       /\ run.exit_code = 0 =>
             /\ Cardinality(Commits) = 1
             /\ \A k \in Deletes : \A c \in Commits : k < c
       /\ StatementRaised =>
             /\ Commits = {}
             /\ server.persisted = run.before

\* C29, amended: a cleanup run in execute mode is all-or-nothing: commit is
\* issued at most once, as the last call and after the DELETEs for every
\* pattern and table have succeeded; a run that ends without error has issued
\* it exactly once when it found orphaned rows, and has issued no DELETE and no
\* commit when it found none. If a COUNT or DELETE raises, no commit is issued
\* before the connection is closed, and once it is closed none of the run's
\* deletions is persisted.
C29_AllOrNothing ==
    run.program \in Cleanups /\ run.execute =>
       /\ Cardinality(Commits) <= 1
       /\ \A c \in Commits :
             /\ c = Len(run.issued)
             /\ Deletes # {} /\ Cardinality(Deletes) = Len(run.orphans)
       /\ Commits = {} \/ run.raised => server.persisted = run.before
       /\ run.pc = "exited" /\ run.exit_code = 0 =>
             /\ OrphansBefore => Cardinality(Commits) = 1 /\ server.persisted = server.rows
             /\ ~OrphansBefore => Commits = {} /\ Deletes = {}
       /\ StatementRaised => Commits = {}
       /\ StatementRaised /\ run.pc = "exited" =>
             server.persisted = run.before /\ server.rows = run.before

\* a run with --execute deleted rows, then a DELETE raised, and the run ended
\* with the rows it started with
C29_Witness ==
    /\ run.program \in Cleanups /\ run.execute /\ run.pc = "exited"
    /\ StatementRaised /\ run.total_deleted > 0
    /\ Cardinality(Deletes) >= 2
    /\ server.rows = run.before

\* whether a profile id, or the creator_fk of a row, matches a cleanup pattern
TestData(id) ==
    \E i \in 1..Len(CLEANUP_PATTERNS) : LikeMatches(id, CLEANUP_PATTERNS[i])

\* a cleanup run with --execute ran to its end without error
CleanedUp ==
    /\ run.program \in Cleanups /\ run.execute
    /\ run.pc = "exited" /\ run.exit_code = 0

\* C30 as stated: after a cleanup run in execute mode no row of tasks, areas
\* or domains has a creator_fk that matches a cleanup pattern and no profile
\* has an id that matches one, and every row that matches no pattern exists
\* after the run if and only if it existed before.
C30_RemovesExactlyTestData ==
    CleanedUp =>
       /\ server.persisted.profiles = { x \in run.before.profiles : ~TestData(x) }
       /\ server.persisted.domains =
             { x \in run.before.domains : ~TestData(x.creator_fk) }
       /\ server.persisted.areas =
             { x \in run.before.areas : ~TestData(x.creator_fk) }
       /\ server.persisted.tasks =
             { x \in run.before.tasks : ~TestData(x.creator_fk) }

\* C30, amended: after a cleanup run in execute mode no row of tasks, areas or
\* domains has a creator_fk that matches a cleanup pattern and no profile has
\* an id that matches one, and every row that matches no pattern exists after
\* the run if and only if it existed before and did not reference, through
\* domain_fk or area_fk and directly or through a chain of them, a row that
\* matches a pattern: such a row goes with the row it references, by ON DELETE
\* CASCADE.
C30_RemovesTestDataAndDependents ==
    CleanedUp =>
       LET before == run.before
           after  == server.persisted
           goneDomains == { x \in before.domains : TestData(x.creator_fk) }
           goneAreas   == { x \in before.areas :
                               \/ TestData(x.creator_fk)
                               \/ x.domain_fk \in IdsOf(goneDomains) }
           goneTasks   == { x \in before.tasks :
                               \/ TestData(x.creator_fk)
                               \/ x.area_fk \in IdsOf(goneAreas) }
       IN  /\ \A x \in after.profiles : ~TestData(x)
           /\ \A x \in after.domains \cup after.areas \cup after.tasks :
                 ~TestData(x.creator_fk)
           /\ after.profiles = { x \in before.profiles : ~TestData(x) }
           /\ after.domains = before.domains \ goneDomains
           /\ after.areas = before.areas \ goneAreas
           /\ after.tasks = before.tasks \ goneTasks

\* a run removed an area of the user that was in a domain of a test profile,
\* and with it the user's task in that area
C30_Witness ==
    /\ CleanedUp
    /\ \E a \in run.before.areas : \E t \in run.before.tasks :
          /\ ~TestData(a.creator_fk) /\ ~TestData(t.creator_fk)
          /\ t.area_fk = a.id
          /\ a \notin server.persisted.areas
          /\ t \notin server.persisted.tasks

====
